---------------------------- MODULE Spec2Model ----------------------------
(***************************************************************************)
(* A model of shengkui/uds: a Unix-domain-socket request/response library  *)
(* (uds.c), its example server (server.c) and its example client.          *)
(*                                                                         *)
(* Packets are byte sequences laid out as the packed struct uds_command_t  *)
(* on a little-endian LP64 machine.  Offsets are 0-based as in C; TLA+     *)
(* sequences are 1-based, so the byte at offset k is buf[k+1].             *)
(***************************************************************************)
EXTENDS Integers, Sequences, FiniteSets, TLC

(***************************************************************************)
(* Bounds of the model.                                                    *)
(***************************************************************************)
\* longest payload drawn for a packet of the codec specification
MaxData == 3
\* stale bytes that follow a packet in the receive buffer (codec specification)
PadLen == 2
\* the capacity of the connection table (the program's value is 10)
UDS_MAX_CLIENT == 2
\* clients that may connect to the server
NumClients == 3
\* requests one client issues on its connection (protocol specification)
MaxReq == 2
\* the largest timeout passed to client_init (the example client passes 10)
MaxTimeout == 2
\* bytes a short write leaves unsent
ShortBy == 1
\* a slot's claims are counted up to this number
MaxGen == 2
\* bytes by which a request exceeds the receive buffer
Overrun == 3

(***************************************************************************)
(* Program constants.                                                      *)
(***************************************************************************)
\* sizeof(uds_command_t): signature 4, command/status 4, data_len 4, checksum 2
HDR_SIZE == 14
OFF_SIGNATURE == 0
OFF_COMMAND == 4
OFF_DATA_LEN == 8
OFF_CHECKSUM == 12
\* 0xDEADBEEF as it lies in memory (little endian)
UDS_SIGNATURE == <<239, 190, 173, 222>>
UDS_BUF_SIZE == 512
STATUS_SUCCESS == 0
STATUS_ERROR == 2
STATUS_INVALID_COMMAND == STATUS_ERROR + 2
CMD_GET_VERSION == 32769
CMD_GET_MESSAGE == 32770
CMD_PUT_MESSAGE == 32771
\* the code the example client sends as an unknown request
CMD_BOGUS == 65535
\* NULL, for a buffer pointer
NULL == <<>>

Bytes == 0..255

(***************************************************************************)
(* Struct field access on a byte buffer.                                   *)
(***************************************************************************)
\* F(v), with v evaluated once: the code works on one buffer in memory
WithValue(v, F(_)) == CHOOSE r \in {F(b) : b \in {v}} : TRUE

Get16(buf, off) == buf[off + 1] + 256 * buf[off + 2]

Put16(buf, off, v) ==
    [buf EXCEPT ![off + 1] = v % 256, ![off + 2] = (v \div 256) % 256]

\* a 32-bit store of a value below 2^31 (every value the program stores is)
Put32(buf, off, v) ==
    Put16(Put16(buf, off, v % 65536), off + 2, v \div 65536)

GetSignature(buf) == SubSeq(buf, OFF_SIGNATURE + 1, OFF_SIGNATURE + 4)

PutSignature(buf, sig) ==
    WithValue(buf, LAMBDA b : SubSeq(b, 1, OFF_SIGNATURE) \o sig
                                 \o SubSeq(b, OFF_SIGNATURE + 5, Len(b)))

\* pkt->data_len == n, compared limb by limb: a corrupted data_len may be
\* any 32-bit value, and the comparison must not leave the checker's integers
DataLenIs(buf, n) ==
    /\ n >= 0
    /\ Get16(buf, OFF_DATA_LEN) = n % 65536
    /\ Get16(buf, OFF_DATA_LEN + 2) = n \div 65536

\* pkt->data_len of a packet the program built itself (below 2^31)
DataLen(buf) == Get16(buf, OFF_DATA_LEN) + 65536 * Get16(buf, OFF_DATA_LEN + 2)

\* pkt->command / pkt->status (a union: the same four bytes)
Command(buf) ==
    IF Get16(buf, OFF_COMMAND + 2) = 0 THEN Get16(buf, OFF_COMMAND) ELSE -1

\* the four bytes of pkt->command
CommandBytes(buf) == SubSeq(buf, OFF_COMMAND + 1, OFF_COMMAND + 4)

Payload(buf) == SubSeq(buf, HDR_SIZE + 1, HDR_SIZE + DataLen(buf))

\* a uds_command_t followed by its data, as the caller fills it in: the
\* caller sets command/status and data_len; sig and ck are whatever the
\* memory held
MakePacket(sig, cmd, ck, data) ==
    Put16(Put32(Put32(PutSignature(<<0, 0, 0, 0, 0, 0, 0, 0, 0, 0, 0, 0, 0, 0>>, sig),
                      OFF_COMMAND, cmd),
                OFF_DATA_LEN, Len(data)),
          OFF_CHECKSUM, ck) \o data

(***************************************************************************)
(* compute_checksum (uds.c:230-258)                                        *)
(***************************************************************************)
\* the sum of word[lo] .. word[hi - 1], added up by halves
RECURSIVE WordRange(_, _, _)
WordRange(buf, lo, hi) ==
    IF hi <= lo THEN 0
    ELSE IF hi = lo + 1 THEN Get16(buf, 2 * lo)
    ELSE WordRange(buf, lo, (lo + hi) \div 2) + WordRange(buf, (lo + hi) \div 2, hi)

\* for (i = 0; i < len/2; i++) sum += word[i];
WordSum(buf, n) == WordRange(buf, 0, n)

\* the carry added back once, without the loop
FoldOnce(sum) == (sum \div 65536) + (sum % 65536)

\* while (sum>>16) sum = (sum>>16) + (sum&0xFFFF);
RECURSIVE FoldCarry(_)
FoldCarry(sum) ==
    IF sum \div 65536 # 0
    THEN FoldCarry((sum \div 65536) + (sum % 65536))
    ELSE sum

\* an earlier revision's slip: the parity of the word count is tested, not
\* that of the length
RawSumWordParity(buf, len) ==
    WordSum(buf, len \div 2)
        + (IF (len \div 2) % 2 = 1 /\ len > 0 THEN buf[len] ELSE 0)

\* the sum before folding: the words, then the odd last byte
RawSum(buf, len) ==
    WordSum(buf, len \div 2) + (IF len % 2 = 1 THEN buf[len] ELSE 0)

\* (uint16_t)(~sum): the low 16 bits of the complement, whatever the width
\* of unsigned long
compute_checksum(buf, len) ==
    WithValue(buf, LAMBDA b :
        IF b = NULL THEN 0
        ELSE (65535 - (FoldCarry(RawSum(b, len)) % 65536)) % 65536)

(***************************************************************************)
(* verify_command_packet (uds.c:275-301): 1 - OK, 0 - FAIL                 *)
(***************************************************************************)
\* the length test left out
VerifyNoLength(buf, len) ==
    WithValue(buf, LAMBDA b :
        IF b = NULL THEN 0
        ELSE IF GetSignature(b) # UDS_SIGNATURE THEN 0
        ELSE IF compute_checksum(b, len) # 0 THEN 0
        ELSE 1)

\* the signature test left out
VerifyNoSignature(buf, len) ==
    WithValue(buf, LAMBDA b :
        IF b = NULL THEN 0
        ELSE IF ~DataLenIs(b, len - HDR_SIZE) THEN 0
        ELSE IF compute_checksum(b, len) # 0 THEN 0
        ELSE 1)

\* the checksum test left out
VerifyNoChecksum(buf, len) ==
    WithValue(buf, LAMBDA b :
        IF b = NULL THEN 0
        ELSE IF GetSignature(b) # UDS_SIGNATURE THEN 0
        ELSE IF ~DataLenIs(b, len - HDR_SIZE) THEN 0
        ELSE 1)

verify_command_packet(buf, len) ==
    WithValue(buf, LAMBDA b :
        IF b = NULL THEN 0
        ELSE IF GetSignature(b) # UDS_SIGNATURE THEN 0
        ELSE IF ~DataLenIs(b, len - HDR_SIZE) THEN 0
        ELSE IF compute_checksum(b, len) # 0 THEN 0
        ELSE 1)

(***************************************************************************)
(* The encoding half of client_send_request (uds.c:629-633)                *)
(***************************************************************************)
\* the checksum computed over whatever the checksum field held
ClientEncodeNoZero(req) ==
    WithValue(PutSignature(req, UDS_SIGNATURE),
              LAMBDA r1 : Put16(r1, OFF_CHECKSUM,
                                compute_checksum(r1, HDR_SIZE + DataLen(r1))))

\* req_len = sizeof(uds_command_t) + req->data_len; the signature is set,
\* the checksum zeroed (r2), then computed over req_len bytes and stored
client_encode(req) ==
    WithValue(Put16(PutSignature(req, UDS_SIGNATURE), OFF_CHECKSUM, 0),
              LAMBDA r2 : Put16(r2, OFF_CHECKSUM,
                                compute_checksum(r2, HDR_SIZE + DataLen(r2))))

(***************************************************************************)
(* The example server's callback (server.c:24-131).  ok: malloc succeeded; *)
(* junk: the byte the fresh heap block is filled with (its signature and   *)
(* checksum fields are not set by the callback).                           *)
(***************************************************************************)
JunkSig(junk) == <<junk, junk, junk, junk>>

\* "This is a message from the server."
ServerMsg ==
    <<84, 104, 105, 115, 32, 105, 115, 32, 97, 32, 109, 101, 115, 115, 97,
      103, 101, 32, 102, 114, 111, 109, 32, 116, 104, 101, 32, 115, 101,
      114, 118, 101, 114, 46>>

\* "This is a message from client"
ClientMsg ==
    <<84, 104, 105, 115, 32, 105, 115, 32, 97, 32, 109, 101, 115, 115, 97,
      103, 101, 32, 102, 114, 111, 109, 32, 99, 108, 105, 101, 110, 116>>

\* the minor version left out of the response
CmdGetVersionNoMinor(ok, junk) ==
    IF ~ok THEN NULL
    ELSE MakePacket(JunkSig(junk), STATUS_SUCCESS, junk * 257, <<1>>)

cmd_get_version(ok, junk) ==
    IF ~ok THEN NULL
    ELSE MakePacket(JunkSig(junk), STATUS_SUCCESS, junk * 257, <<1, 0>>)

\* the block is header + UDS_GET_MSG_SIZE bytes; snprintf writes the string
\* and its NUL; data_len is strlen(str); the bytes after the NUL are never
\* read and are left out
cmd_get_msg(ok, junk) ==
    IF ~ok THEN NULL
    ELSE Put32(MakePacket(JunkSig(junk), STATUS_SUCCESS, junk * 257,
                          ServerMsg \o <<0>>),
               OFF_DATA_LEN, Len(ServerMsg))

\* the request's payload sent back
CmdPutMsgEcho(req, ok, junk) ==
    IF ~ok THEN NULL
    ELSE MakePacket(JunkSig(junk), STATUS_SUCCESS, junk * 257, Payload(req))

cmd_put_msg(req, ok, junk) ==
    IF ~ok THEN NULL
    ELSE MakePacket(JunkSig(junk), STATUS_SUCCESS, junk * 257, <<>>)

cmd_unknown(req, ok, junk) ==
    IF ~ok THEN NULL
    ELSE MakePacket(JunkSig(junk), STATUS_INVALID_COMMAND, junk * 257, <<>>)

\* the default branch answering success
RequestHandlerDefaultOk(req, ok, junk) ==
    IF Command(req) = CMD_GET_VERSION THEN cmd_get_version(ok, junk)
    ELSE IF Command(req) = CMD_GET_MESSAGE THEN cmd_get_msg(ok, junk)
    ELSE cmd_put_msg(req, ok, junk)

my_request_handler(req, ok, junk) ==
    IF Command(req) = CMD_GET_VERSION THEN cmd_get_version(ok, junk)
    ELSE IF Command(req) = CMD_GET_MESSAGE THEN cmd_get_msg(ok, junk)
    ELSE IF Command(req) = CMD_PUT_MESSAGE THEN cmd_put_msg(req, ok, junk)
    ELSE cmd_unknown(req, ok, junk)

(***************************************************************************)
(* The reply construction of request_handle_routine (uds.c:350-359):       *)
(* buf is the inbound buffer holding the request, r the callback's result. *)
(* The result is the buffer resp points to and resp_len.                   *)
(***************************************************************************)
\* the signature is not copied from the request
HandlerResponseNoSig(buf, r) ==
    WithValue(r, LAMBDA res :
    WithValue(IF res = NULL
              THEN Put32(Put32(buf, OFF_COMMAND, STATUS_ERROR), OFF_DATA_LEN, 0)
              ELSE res, LAMBDA resp0 :
    WithValue(Put16(resp0, OFF_CHECKSUM, 0), LAMBDA resp2 :
        [resp |-> Put16(resp2, OFF_CHECKSUM,
                        compute_checksum(resp2, HDR_SIZE + DataLen(resp0))),
         resp_len |-> HDR_SIZE + DataLen(resp0),
         local |-> res = NULL])))

\* resp0: the callback's result, or buf with status = STATUS_ERROR and
\* data_len = 0; resp_len = sizeof(uds_command_t) + resp->data_len; resp2:
\* the request's signature copied, the checksum zeroed; then the checksum
\* over resp_len bytes is stored
handler_response(buf, r) ==
    WithValue(r, LAMBDA res :
    WithValue(IF res = NULL
              THEN Put32(Put32(buf, OFF_COMMAND, STATUS_ERROR), OFF_DATA_LEN, 0)
              ELSE res, LAMBDA resp0 :
    WithValue(Put16(PutSignature(resp0, GetSignature(buf)), OFF_CHECKSUM, 0),
              LAMBDA resp2 :
        [resp |-> Put16(resp2, OFF_CHECKSUM,
                        compute_checksum(resp2, HDR_SIZE + DataLen(resp0))),
         resp_len |-> HDR_SIZE + DataLen(resp0),
         local |-> res = NULL])))

(***************************************************************************)
(* State.  The c* variables belong to the codec specification, which       *)
(* applies the packet codec to drawn buffers.                              *)
(***************************************************************************)
VARIABLES
    cbuf,       \* the buffer handed to the codec: a packet and the bytes after it
    clen,       \* the observed length passed with it
    cstage,     \* "raw" as the caller filled it, "request", "response"
    cmod,       \* what was done to the encoded packet: "none", "byte", "len"
    corig,      \* the buffer before a byte of it was changed
    cchk,       \* the codec has been applied
    cres,       \* verify_command_packet(cbuf, clen)
    csum,       \* compute_checksum(cbuf, clen)
    \* ---- the server process (server.c main, uds.c server_*) ----
    loop_flag,  \* server.c:18
    mpc,        \* where the main thread is: "init" (before server_init), "loop",
                \* "accept", "scan", "full", "claim" (server_accept_request),
                \* "close", "join" (server_close), "done" (server freed)
    mi,         \* the main thread's loop index i
    cl,         \* the descriptor accept returned (0: none)
    rc,         \* what the last server_accept_request returned (1: none yet)
    conn,       \* s->conn[]: [inuse, client_fd] per slot, and gen: how often the
                \* slot has been claimed (threads started in it), joined: how
                \* many of its threads pthread_join has returned for
    fdtab,      \* the server's descriptor table: descriptor -> connection (0: closed)
    backlog,    \* connections completed by the kernel and not yet accepted
    \* ---- one request_handle_routine thread per slot ----
    hpc,        \* "idle" (no thread), "recv", "select" (RECEIVING), "validate",
                \* "dispatch", "reply", "closing", "release"
    hbuf,       \* buf[]: the bytes written so far into the thread's buffer
    hpos,       \* recv_data's pos, then req_len
    hresp,      \* the response to send: [bytes, local, cmd]: its bytes, whether
                \* it was built in buf, the command bytes of its request
    stat,       \* per thread: bursts accepted (valid) and discarded (bad),
                \* callback calls, responses sent, and how the burst in hand
                \* ended: "" (none in hand), "quiet", "full", "eof", "recverr";
                \* responses the callback returned (allocs) and free(resp)
                \* calls (frees)
    \* ---- the connections, by client ----
    c2s,        \* bytes sent by the client and not yet received by the server
    s2c,        \* bytes sent by the server and not yet received by the client
    copen,      \* the client's descriptor is open (from socket() in client_init)
    sstate,     \* the server's end: "none", "queued", "open", "closed"
    \* ---- the clients (client.c main, uds.c client_*) ----
    ccpc,       \* "start" (in client_init), "ready", "recv", "select" (in
                \* client_send_request), "failed" (a call returned NULL), "done"
    plan,       \* the requests the client has still to issue
    crbuf,      \* client_send_request's buf: the bytes received in the call in
                \* progress, or in the last call
    cret,       \* what the last client_send_request returned
    clast,      \* the request sent by the last client_send_request
    cinit,      \* client_init: [arg, timeout, tries, rc]: the timeout passed, its
                \* local copy, the connect calls made, what the last one returned
    \* ---- history ----
    log,        \* per connection: requests sent (q), bursts accepted (r),
                \* responses sent (a), calls returned (x), and the caller
                \* going on after a NULL (n)
    atClose,    \* <<slot, connection>> of the handlers that were blocked in
                \* recv when server_close began
    why         \* per thread: why it left its loop: "" (it has not), "eof",
                \* "recverr", "senderr"

cvars == <<cbuf, clen, cstage, cmod, corig, cchk, cres, csum>>

mvars == <<loop_flag, mpc, mi, cl, rc>>
hvars == <<hpc, hbuf, hpos, hresp, stat>>
nvars == <<c2s, s2c, copen, sstate>>
kvars == <<ccpc, plan, crbuf, cret, clast, cinit>>
svars == <<mvars, conn, fdtab, backlog, hvars, nvars, kvars, log, atClose, why>>

vars == <<cvars, svars>>

(***************************************************************************)
(* The system: sets, and the state before any client has started: after    *)
(* server_init has returned (started), or before the server has called it. *)
(***************************************************************************)
Clients == 1..NumClients
Slots == 0..(UDS_MAX_CLIENT - 1)
\* descriptor numbers the server's accept can return
Fds == 1..NumClients

Request(cmd, data) == [cmd |-> cmd, data |-> data]

\* the slot array after memset(s, 0, sizeof(uds_server_t))
NoConn == [i \in Slots |-> [inuse |-> 0, client_fd |-> 0, gen |-> 0, joined |-> 0]]
NoStat == [valid |-> 0, bad |-> 0, calls |-> 0, sends |-> 0, how |-> "",
           allocs |-> 0, frees |-> 0]
NoResp == [bytes |-> NULL, local |-> FALSE, cmd |-> NULL]

\* client_init(path, t) has been called and has not yet tried to connect
InitCall(t) == [arg |-> t, timeout |-> t, tries |-> 0, rc |-> 1]

SysInit(plans, timeouts, started) ==
    /\ loop_flag = 1
    /\ mpc = (IF started THEN "loop" ELSE "init")
    /\ mi = 0
    /\ cl = 0
    /\ rc = 1
    /\ conn = NoConn
    /\ fdtab = [f \in Fds |-> 0]
    /\ backlog = <<>>
    /\ hpc = [i \in Slots |-> "idle"]
    /\ hbuf = [i \in Slots |-> NULL]
    /\ hpos = [i \in Slots |-> 0]
    /\ hresp = [i \in Slots |-> NoResp]
    /\ stat = [i \in Slots |-> NoStat]
    /\ c2s = [c \in Clients |-> <<>>]
    /\ s2c = [c \in Clients |-> <<>>]
    /\ copen = [c \in Clients |-> TRUE]
    /\ sstate = [c \in Clients |-> "none"]
    /\ ccpc = [c \in Clients |-> "start"]
    /\ plan \in plans
    /\ crbuf = [c \in Clients |-> NULL]
    /\ cret = [c \in Clients |-> NULL]
    /\ clast = [c \in Clients |-> NULL]
    /\ cinit \in [Clients -> {InitCall(t) : t \in timeouts}]
    /\ log = [c \in Clients |-> <<>>]
    /\ atClose = {}
    /\ why = [i \in Slots |-> ""]

\* the codec variables of a specification that does not use them
CodecIdle ==
    /\ cbuf = NULL /\ clen = 0 /\ cstage = "off" /\ cmod = "none"
    /\ corig = NULL /\ cchk = FALSE /\ cres = -1 /\ csum = -1

\* s->sockfd is bound and listens from server_init to the end of server_close
Listening == mpc \notin {"init", "done"}

\* the lowest free descriptor number, as accept returns it
LowestFree == CHOOSE f \in Fds : fdtab[f] = 0 /\ \A g \in Fds : g < f => fdtab[g] # 0

\* the connection behind a descriptor of the server (0: the descriptor is closed)
ConnOf(fd) == IF fd \in Fds THEN fdtab[fd] ELSE 0

\* close(fd) in the server: the descriptor is released and the connection
\* behind it, if any, is shut, what it had still to read is dropped; closing
\* a closed descriptor changes nothing
CloseFd(fd) ==
    /\ fdtab' = [f \in Fds |-> IF f = fd THEN 0 ELSE fdtab[f]]
    /\ sstate' = [c \in Clients |->
                    IF ConnOf(fd) = c THEN "closed" ELSE sstate[c]]
    /\ c2s' = [c \in Clients |-> IF ConnOf(fd) = c THEN <<>> ELSE c2s[c]]

\* data written into a buffer at offset pos
Overwrite(buf, pos, data) ==
    [k \in 1..(IF Len(buf) > pos + Len(data) THEN Len(buf) ELSE pos + Len(data)) |->
        IF k > pos /\ k <= pos + Len(data) THEN data[k - pos] ELSE buf[k]]

Min(a, b) == IF a < b THEN a ELSE b

\* the history of a connection: q the client sent a request, r the handler
\* accepted a burst, a the handler sent a response, x the client's call
\* returned a response; each with the command bytes of the request
Event(t, cmd) == [t |-> t, cmd |-> cmd]

Logged(c, e) ==
    log' = [k \in Clients |-> IF k = c THEN Append(log[k], e) ELSE log[k]]

(***************************************************************************)
(* The codec specification.                                                *)
(***************************************************************************)
ByteVals == {0, 1, 255}
JunkVals == {0, 165}
CodecCommands == {CMD_GET_VERSION, CMD_PUT_MESSAGE, CMD_BOGUS}
\* the differences by which one byte is changed
Deltas == {1, 128, 255}

Payloads == UNION {[1..n -> ByteVals] : n \in 0..MaxData}

\* bytes left in the buffer after the packet
Pad == [k \in 1..PadLen |-> 0]

CodecInit ==
    /\ \E sig \in {JunkSig(0), UDS_SIGNATURE}, cmd \in CodecCommands,
          ck \in {0, 1}, data \in Payloads :
          /\ cbuf = MakePacket(sig, cmd, ck, data) \o Pad
          /\ clen = HDR_SIZE + Len(data)
    /\ cstage = "raw"
    /\ cmod = "none"
    /\ corig = NULL
    /\ cchk = FALSE
    /\ cres = -1
    /\ csum = -1
    /\ SysInit({[c \in Clients |-> <<>>]}, {MaxTimeout}, TRUE)

\* client_send_request encodes the caller's request
CodecEncodeRequest ==
    /\ cstage = "raw" /\ cmod = "none" /\ ~cchk
    /\ LET req == SubSeq(cbuf, 1, clen)
       IN  /\ cbuf' = client_encode(req) \o Pad
           /\ clen' = HDR_SIZE + DataLen(req)
    /\ cstage' = "request"
    /\ UNCHANGED <<cmod, corig, cchk, cres, csum, svars>>

\* request_handle_routine answers a request it accepted
CodecRespond ==
    /\ cstage = "request" /\ cmod = "none" /\ ~cchk
    /\ verify_command_packet(cbuf, clen) = 1
    /\ \E ok \in BOOLEAN, junk \in JunkVals :
          LET buf == SubSeq(cbuf, 1, clen)
              r == handler_response(buf, my_request_handler(buf, ok, junk))
          IN  /\ cbuf' = SubSeq(r.resp, 1, r.resp_len) \o Pad
              /\ clen' = r.resp_len
    /\ cstage' = "response"
    /\ UNCHANGED <<cmod, corig, cchk, cres, csum, svars>>

\* one byte of the packet takes another value
CodecCorrupt ==
    /\ cstage \in {"request", "response"} /\ cmod = "none" /\ ~cchk
    /\ \E k \in 1..clen, d \in Deltas :
          cbuf' = [cbuf EXCEPT ![k] = (@ + d) % 256]
    /\ corig' = cbuf
    /\ cmod' = "byte"
    /\ UNCHANGED <<clen, cstage, cchk, cres, csum, svars>>

\* the packet as a sender with another magic constant encodes it: its
\* signature, and the checksum computed over the len bytes with it
Resign(buf, len, sig) ==
    WithValue(Put16(PutSignature(buf, sig), OFF_CHECKSUM, 0),
              LAMBDA r2 : Put16(r2, OFF_CHECKSUM, compute_checksum(r2, len)))

\* the packet comes from a sender with another signature
CodecForeign ==
    /\ cstage \in {"request", "response"} /\ cmod = "none" /\ ~cchk
    /\ \E junk \in JunkVals : cbuf' = Resign(cbuf, clen, JunkSig(junk))
    /\ corig' = cbuf
    /\ cmod' = "sig"
    /\ UNCHANGED <<clen, cstage, cchk, cres, csum, svars>>

\* the receiver observes another length than the packet's
CodecObserve ==
    /\ cmod = "none" /\ ~cchk
    /\ \E n \in 0..Len(cbuf) : n # clen /\ clen' = n
    /\ cmod' = "len"
    /\ UNCHANGED <<cbuf, cstage, corig, cchk, cres, csum, svars>>

\* the codec is applied to the buffer
CodecVerify ==
    /\ ~cchk
    /\ cres' = verify_command_packet(cbuf, clen)
    /\ csum' = compute_checksum(cbuf, clen)
    /\ cchk' = TRUE
    /\ UNCHANGED <<cbuf, clen, cstage, cmod, corig, svars>>

CodecNext ==
    \/ CodecEncodeRequest
    \/ CodecRespond
    \/ CodecCorrupt
    \/ CodecForeign
    \/ CodecObserve
    \/ CodecVerify

CodecSpec == CodecInit /\ [][CodecNext]_vars

(***************************************************************************)
(* The server's main thread: while (loop_flag) server_accept_request(s);   *)
(* server_close(s);  (server.c:165-170, uds.c:470-545)                     *)
(***************************************************************************)
\* the handler of slot i is blocked in its first recv of a burst: nothing to
\* read, the peer still connected
Blocked(i) ==
    /\ hpc[i] = "recv" /\ hpos[i] = 0
    /\ ConnOf(conn[i].client_fd) # 0
    /\ c2s[ConnOf(conn[i].client_fd)] = <<>>
    /\ copen[ConnOf(conn[i].client_fd)]

\* server.c:157-163: install_sig_handler and server_init (uds.c:392-455);
\* when socket, bind or listen fails the server ends
ServerInit ==
    /\ mpc = "init"
    /\ \E ok \in BOOLEAN : mpc' = (IF ok THEN "loop" ELSE "done")
    /\ UNCHANGED <<loop_flag, mi, cl, rc, conn, fdtab, backlog, hvars, nvars,
                   kvars, log, atClose, why, cvars>>

\* server.c:165: the test of loop_flag; server_close begins when it is 0.
\* The value server_accept_request returned is dropped.
MainLoop ==
    /\ mpc = "loop"
    /\ IF loop_flag # 0
       THEN /\ mpc' = "accept"
            /\ UNCHANGED <<mi, atClose>>
       ELSE /\ mpc' = "close"
            /\ mi' = 0
            /\ atClose' = {<<i, ConnOf(conn[i].client_fd)>> :
                             i \in {j \in Slots : conn[j].inuse # 0 /\ Blocked(j)}}
    /\ rc' = 1
    /\ UNCHANGED <<loop_flag, cl, conn, fdtab, backlog, hvars, nvars,
                   kvars, log, why, cvars>>

\* uds.c:480: accept returns the next completed connection
MainAccept ==
    /\ mpc = "accept"
    /\ backlog # <<>>
    /\ cl' = LowestFree
    /\ fdtab' = [fdtab EXCEPT ![LowestFree] = Head(backlog)]
    /\ sstate' = [sstate EXCEPT ![Head(backlog)] = "open"]
    /\ backlog' = Tail(backlog)
    /\ mi' = 0
    /\ mpc' = "scan"
    /\ UNCHANGED <<loop_flag, rc, conn, hvars, c2s, s2c, copen, kvars, log,
                   atClose, why, cvars>>

\* a failed accept that ends the accept loop
MainAcceptFailStop ==
    /\ mpc = "accept"
    /\ rc' = -1
    /\ mpc' = "close"
    /\ UNCHANGED <<loop_flag, mi, cl, conn, fdtab, backlog, hvars, nvars,
                   kvars, log, atClose, why, cvars>>

\* uds.c:480-484: accept fails for a reason other than a signal (no
\* descriptor or memory left, a connection aborted): -1 is returned
MainAcceptFail ==
    /\ mpc = "accept"
    /\ rc' = -1
    /\ mpc' = "loop"
    /\ UNCHANGED <<loop_flag, mi, cl, conn, fdtab, backlog, hvars, nvars,
                   kvars, log, atClose, why, cvars>>

\* the scan that takes the first slot without a look at its flag
MainScanBlind ==
    /\ mpc = "scan"
    /\ mpc' = "claim"
    /\ mi' = mi
    /\ UNCHANGED <<loop_flag, cl, rc, conn, fdtab, backlog, hvars, nvars,
                   kvars, log, atClose, why, cvars>>

\* the scan that stops at a free slot only when it is the last
MainScanLast ==
    /\ mpc = "scan"
    /\ IF conn[mi].inuse = 0 /\ mi + 1 >= UDS_MAX_CLIENT
       THEN /\ mpc' = "claim"
            /\ mi' = mi
       ELSE /\ mi' = mi + 1
            /\ mpc' = IF mi + 1 >= UDS_MAX_CLIENT THEN "full" ELSE "scan"
    /\ UNCHANGED <<loop_flag, cl, rc, conn, fdtab, backlog, hvars, nvars,
                   kvars, log, atClose, why, cvars>>

\* uds.c:487-492: one turn of the scan for a free slot
MainScan ==
    /\ mpc = "scan"
    /\ IF conn[mi].inuse = 0
       THEN /\ mpc' = "claim"
            /\ mi' = mi
       ELSE /\ mi' = mi + 1
            /\ mpc' = IF mi + 1 >= UDS_MAX_CLIENT THEN "full" ELSE "scan"
    /\ UNCHANGED <<loop_flag, cl, rc, conn, fdtab, backlog, hvars, nvars,
                   kvars, log, atClose, why, cvars>>

\* the refusal without close(cl)
MainRefuseNoClose ==
    /\ mpc = "full"
    /\ rc' = -1
    /\ cl' = 0
    /\ mi' = 0
    /\ mpc' = "loop"
    /\ UNCHANGED <<loop_flag, conn, fdtab, backlog, hvars, nvars, kvars, log,
                   atClose, why, cvars>>

\* uds.c:492-496: no slot is free: the connection is closed
MainRefuse ==
    /\ mpc = "full"
    /\ CloseFd(cl)
    /\ rc' = -1
    /\ cl' = 0
    /\ mi' = 0
    /\ mpc' = "loop"
    /\ UNCHANGED <<loop_flag, conn, backlog, hvars, s2c, copen, kvars, log,
                   atClose, why, cvars>>

\* the slot left in use when pthread_create fails
MainClaimKeepsSlot ==
    /\ mpc = "claim"
    /\ \/ /\ conn' = [conn EXCEPT ![mi] = [inuse |-> 1, client_fd |-> cl,
                                            gen |-> Min(@.gen + 1, MaxGen),
                                            joined |-> @.joined]]
          /\ hpc' = [hpc EXCEPT ![mi] = "recv"]
          /\ hbuf' = [hbuf EXCEPT ![mi] = NULL]
          /\ hpos' = [hpos EXCEPT ![mi] = 0]
          /\ stat' = [stat EXCEPT ![mi] = NoStat]
          /\ why' = [why EXCEPT ![mi] = ""]
          /\ rc' = 0
          /\ UNCHANGED <<fdtab, sstate, c2s, hresp>>
       \/ /\ conn' = [conn EXCEPT ![mi] = [inuse |-> 1, client_fd |-> cl,
                                            gen |-> @.gen, joined |-> @.joined]]
          /\ CloseFd(cl)
          /\ rc' = -1
          /\ UNCHANGED <<hvars, why>>
    /\ cl' = 0
    /\ mi' = 0
    /\ mpc' = "loop"
    /\ UNCHANGED <<loop_flag, backlog, s2c, copen, kvars, log, atClose, cvars>>

\* uds.c:498-509: the slot is claimed and the handler thread started; when
\* pthread_create fails the connection is closed and the slot freed.  The
\* thread's buf[] (uds.c:323) is not initialised: it starts as one of bufs
MainClaimWith(bufs) ==
    /\ mpc = "claim"
    /\ \/ /\ conn' = [conn EXCEPT ![mi] = [inuse |-> 1, client_fd |-> cl,
                                            gen |-> Min(@.gen + 1, MaxGen),
                                            joined |-> @.joined]]
          /\ hpc' = [hpc EXCEPT ![mi] = "recv"]
          /\ \E b \in bufs : hbuf' = [hbuf EXCEPT ![mi] = b]
          /\ hpos' = [hpos EXCEPT ![mi] = 0]
          /\ stat' = [stat EXCEPT ![mi] = NoStat]
          /\ why' = [why EXCEPT ![mi] = ""]
          /\ rc' = 0
          /\ UNCHANGED <<fdtab, sstate, c2s, hresp>>
       \/ /\ conn' = [conn EXCEPT ![mi] = [inuse |-> 0, client_fd |-> cl,
                                            gen |-> @.gen, joined |-> @.joined]]
          /\ CloseFd(cl)
          /\ rc' = -1
          /\ UNCHANGED <<hvars, why>>
    /\ cl' = 0
    /\ mi' = 0
    /\ mpc' = "loop"
    /\ UNCHANGED <<loop_flag, backlog, s2c, copen, kvars, log, atClose, cvars>>

\* the thread's buffer is not read before it is written
MainClaim == MainClaimWith({NULL})

\* what ends server_close and the process: close(s->sockfd), free(s),
\* return from main.  No connection or descriptor outlives the process.
ServerGone ==
    /\ mpc' = "done"
    /\ backlog' = <<>>
    /\ fdtab' = [f \in Fds |-> 0]
    /\ sstate' = [c \in Clients |->
                    IF sstate[c] \in {"queued", "open"} THEN "closed" ELSE sstate[c]]
    /\ c2s' = [c \in Clients |-> <<>>]

\* server_close without the pthread_join
MainCloseNoJoin ==
    /\ mpc = "close"
    /\ IF mi < UDS_MAX_CLIENT
       THEN /\ mi' = mi + 1
            /\ IF conn[mi].inuse # 0
               THEN CloseFd(conn[mi].client_fd)
               ELSE UNCHANGED <<fdtab, sstate, c2s>>
            /\ UNCHANGED <<mpc, backlog>>
       ELSE /\ ServerGone
            /\ UNCHANGED mi
    /\ UNCHANGED <<loop_flag, cl, rc, conn, hvars, s2c, copen, kvars,
                   log, atClose, why, cvars>>

\* uds.c:536-544: one turn of server_close's loop, then its end
MainClose ==
    /\ mpc = "close"
    /\ IF mi < UDS_MAX_CLIENT
       THEN /\ IF conn[mi].inuse # 0
               THEN mpc' = "join" /\ mi' = mi
               ELSE mpc' = "close" /\ mi' = mi + 1
            /\ UNCHANGED <<fdtab, sstate, c2s, backlog>>
       ELSE /\ ServerGone
            /\ UNCHANGED mi
    /\ UNCHANGED <<loop_flag, cl, rc, conn, hvars, s2c, copen, kvars,
                   log, atClose, why, cvars>>

\* pthread_join that returns while the thread still runs
MainJoinNoWait ==
    /\ mpc = "join"
    /\ conn' = [conn EXCEPT ![mi].joined = Min(@ + 1, MaxGen)]
    /\ CloseFd(conn[mi].client_fd)
    /\ mi' = mi + 1
    /\ mpc' = "close"
    /\ UNCHANGED <<loop_flag, cl, rc, backlog, hvars, s2c, copen,
                   kvars, log, atClose, why, cvars>>

\* uds.c:538-539: pthread_join returns once the slot's thread has ended;
\* then close(s->conn[i].client_fd)
MainJoin ==
    /\ mpc = "join"
    /\ hpc[mi] = "idle"
    /\ conn' = [conn EXCEPT ![mi].joined = Min(@ + 1, MaxGen)]
    /\ CloseFd(conn[mi].client_fd)
    /\ mi' = mi + 1
    /\ mpc' = "close"
    /\ UNCHANGED <<loop_flag, cl, rc, backlog, hvars, s2c, copen,
                   kvars, log, atClose, why, cvars>>

(***************************************************************************)
(* SIGINT (server.c:137-150).  The handler is installed without SA_RESTART *)
(* and no thread blocks the signal, so it runs in the main thread or in    *)
(* any handler thread, and a blocking accept or recv of that thread fails  *)
(* with EINTR.                                                             *)
(***************************************************************************)
\* delivered to the main thread; an accept it is blocked in returns -1
SigintMain ==
    /\ mpc # "done"
    /\ loop_flag' = 0
    /\ \/ /\ loop_flag # 0
          /\ UNCHANGED <<mpc, rc>>
       \/ /\ mpc = "accept" /\ backlog = <<>>
          /\ mpc' = "loop"
          /\ rc' = -1
    /\ UNCHANGED <<mi, cl, conn, fdtab, backlog, hvars, nvars, kvars, log,
                   atClose, why, cvars>>

\* delivered to the handler thread of slot i; a recv it is blocked in
\* returns -1, recv_data returns 0 and the handler leaves its loop
SigintHandler(i) ==
    /\ mpc # "done"
    /\ hpc[i] # "idle"
    /\ loop_flag' = 0
    /\ \/ /\ loop_flag # 0
          /\ UNCHANGED <<hpc, why>>
       \/ /\ Blocked(i)
          /\ hpc' = [hpc EXCEPT ![i] = "closing"]
          /\ why' = [why EXCEPT ![i] = "recverr"]
    /\ UNCHANGED <<mpc, mi, cl, rc, conn, fdtab, backlog, hbuf, hpos, hresp,
                   stat, nvars, kvars, log, atClose, cvars>>

(***************************************************************************)
(* request_handle_routine (uds.c:318-375), the thread of slot i, with      *)
(* recv_data (uds.c:43-87) inlined: "recv" is its recv, "select" its wait  *)
(* of up to 10 ms for more data.                                           *)
(*                                                                         *)
(* A descriptor closed under a thread makes its next recv, select or send  *)
(* fail (EBADF).                                                           *)
(***************************************************************************)
\* the result of recv_data validated whatever its sign
RecvReturnValidate(i, n, how) ==
    /\ hpc' = [hpc EXCEPT ![i] = "validate"]
    /\ hpos' = [hpos EXCEPT ![i] = IF n > 0 THEN n ELSE 0]
    /\ stat' = [stat EXCEPT ![i].how = how]
    /\ UNCHANGED why

\* recv_data returns n to the handler (uds.c:86, 334-339), its loop left for
\* the reason how: n <= 0 ends the handler's loop
RecvReturn(i, n, how) ==
    /\ hpos' = [hpos EXCEPT ![i] = n]
    /\ IF n <= 0
       THEN /\ hpc' = [hpc EXCEPT ![i] = "closing"]
            /\ why' = [why EXCEPT ![i] = how]
            /\ UNCHANGED stat
       ELSE /\ hpc' = [hpc EXCEPT ![i] = "validate"]
            /\ stat' = [stat EXCEPT ![i].how = how]
            /\ UNCHANGED why

\* a recv that gives up on a silent peer
RecvTimeout(i, avail) ==
    /\ LET c == ConnOf(conn[i].client_fd)
           k == Min(avail, UDS_BUF_SIZE - hpos[i])
       IN  IF c = 0
           THEN /\ RecvReturn(i, hpos[i], "recverr")
                /\ UNCHANGED <<hbuf, c2s>>
           ELSE IF avail > 0
           THEN /\ hbuf' = [hbuf EXCEPT
                              ![i] = Overwrite(@, hpos[i], SubSeq(c2s[c], 1, k))]
                /\ c2s' = [c2s EXCEPT ![c] = SubSeq(@, k + 1, Len(@))]
                /\ IF hpos[i] + k >= UDS_BUF_SIZE
                   THEN RecvReturn(i, hpos[i] + k, "full")
                   ELSE /\ hpos' = [hpos EXCEPT ![i] = @ + k]
                        /\ hpc' = [hpc EXCEPT ![i] = "select"]
                        /\ UNCHANGED <<why, stat>>
           ELSE /\ RecvReturn(i, hpos[i], IF copen[c] THEN "recverr" ELSE "eof")
                /\ UNCHANGED <<hbuf, c2s>>
    /\ UNCHANGED <<mvars, conn, fdtab, backlog, hresp, s2c, copen,
                   sstate, kvars, log, atClose, cvars>>

\* recv asked for len bytes whatever pos is
RecvWholeBuffer(i, avail) ==
    /\ LET c == ConnOf(conn[i].client_fd)
           k == Min(avail, UDS_BUF_SIZE)
       IN  IF c = 0
           THEN /\ RecvReturn(i, hpos[i], "recverr")
                /\ UNCHANGED <<hbuf, c2s>>
           ELSE IF avail > 0
           THEN /\ hbuf' = [hbuf EXCEPT
                              ![i] = Overwrite(@, hpos[i], SubSeq(c2s[c], 1, k))]
                /\ c2s' = [c2s EXCEPT ![c] = SubSeq(@, k + 1, Len(@))]
                /\ IF hpos[i] + k >= UDS_BUF_SIZE
                   THEN RecvReturn(i, hpos[i] + k, "full")
                   ELSE /\ hpos' = [hpos EXCEPT ![i] = @ + k]
                        /\ hpc' = [hpc EXCEPT ![i] = "select"]
                        /\ UNCHANGED <<why, stat>>
           ELSE /\ ~copen[c]
                /\ RecvReturn(i, hpos[i], "eof")
                /\ UNCHANGED <<hbuf, c2s>>
    /\ UNCHANGED <<mvars, conn, fdtab, backlog, hresp, s2c, copen,
                   sstate, kvars, log, atClose, cvars>>

\* uds.c:54-67: recv(sockfd, buf+pos, len-pos, flags) when the kernel has
\* avail bytes to hand over, and what follows it
Recv(i, avail) ==
    /\ LET c == ConnOf(conn[i].client_fd)
           k == Min(avail, UDS_BUF_SIZE - hpos[i])
       IN  IF c = 0
           THEN /\ RecvReturn(i, hpos[i], "recverr")
                /\ UNCHANGED <<hbuf, c2s>>
           ELSE IF avail > 0
           THEN /\ hbuf' = [hbuf EXCEPT
                              ![i] = Overwrite(@, hpos[i], SubSeq(c2s[c], 1, k))]
                /\ c2s' = [c2s EXCEPT ![c] = SubSeq(@, k + 1, Len(@))]
                /\ IF hpos[i] + k >= UDS_BUF_SIZE
                   THEN RecvReturn(i, hpos[i] + k, "full")
                   ELSE /\ hpos' = [hpos EXCEPT ![i] = @ + k]
                        /\ hpc' = [hpc EXCEPT ![i] = "select"]
                        /\ UNCHANGED <<why, stat>>
           ELSE /\ ~copen[c]
                /\ RecvReturn(i, hpos[i], "eof")
                /\ UNCHANGED <<hbuf, c2s>>
    /\ UNCHANGED <<mvars, conn, fdtab, backlog, hresp, s2c, copen,
                   sstate, kvars, log, atClose, cvars>>

\* the recv of the handler's burst: all the bytes the peer has sent are there
HRecv(i) ==
    /\ hpc[i] = "recv"
    /\ Recv(i, IF ConnOf(conn[i].client_fd) = 0 THEN 0
               ELSE Len(c2s[ConnOf(conn[i].client_fd)]))

\* the same recv on a stream socket (uds.h: SOCK_STREAM), which keeps no
\* message boundary: a part of the bytes sent is there, the rest follows
HRecvPart(i) ==
    /\ hpc[i] = "recv"
    /\ ConnOf(conn[i].client_fd) # 0
    /\ Len(c2s[ConnOf(conn[i].client_fd)]) >= 2
    /\ Recv(i, Len(c2s[ConnOf(conn[i].client_fd)]) \div 2)

\* uds.c:75-84: select; count <= 0 ends the burst
HSelect(i) ==
    /\ hpc[i] = "select"
    /\ LET c == ConnOf(conn[i].client_fd)
       IN  IF c # 0 /\ (c2s[c] # <<>> \/ ~copen[c])
           THEN /\ hpc' = [hpc EXCEPT ![i] = "recv"]
                /\ UNCHANGED <<hpos, why, stat>>
           ELSE RecvReturn(i, hpos[i], "quiet")
    /\ UNCHANGED <<mvars, conn, fdtab, backlog, hbuf, hresp, nvars,
                   kvars, log, atClose, cvars>>

\* every burst handed to the callback
HValidateAny(i) ==
    /\ hpc[i] = "validate"
    /\ hpc' = [hpc EXCEPT ![i] = "dispatch"]
    /\ stat' = [stat EXCEPT ![i].valid = @ + 1, ![i].how = ""]
    /\ IF ConnOf(conn[i].client_fd) # 0
       THEN Logged(ConnOf(conn[i].client_fd), Event("r", CommandBytes(hbuf[i])))
       ELSE UNCHANGED log
    /\ UNCHANGED <<mvars, conn, fdtab, backlog, hbuf, hpos, hresp, nvars, kvars,
                   atClose, why, cvars>>

\* an invalid burst ends the connection
HValidateClose(i) ==
    /\ hpc[i] = "validate"
    /\ IF verify_command_packet(hbuf[i], hpos[i]) = 0
       THEN /\ hpc' = [hpc EXCEPT ![i] = "closing"]
            /\ stat' = [stat EXCEPT ![i].bad = @ + 1, ![i].how = ""]
            /\ UNCHANGED <<hpos, log>>
       ELSE /\ hpc' = [hpc EXCEPT ![i] = "dispatch"]
            /\ stat' = [stat EXCEPT ![i].valid = @ + 1, ![i].how = ""]
            /\ IF ConnOf(conn[i].client_fd) # 0
               THEN Logged(ConnOf(conn[i].client_fd),
                           Event("r", CommandBytes(hbuf[i])))
               ELSE UNCHANGED log
            /\ UNCHANGED hpos
    /\ UNCHANGED <<mvars, conn, fdtab, backlog, hbuf, hresp, nvars, kvars,
                   atClose, why, cvars>>

\* the bytes in the buffer validated, not the bytes of the burst
HValidateWholeBuffer(i) ==
    /\ hpc[i] = "validate"
    /\ IF verify_command_packet(hbuf[i], Len(hbuf[i])) = 0
       THEN /\ hpc' = [hpc EXCEPT ![i] = "recv"]
            /\ hpos' = [hpos EXCEPT ![i] = 0]
            /\ stat' = [stat EXCEPT ![i].bad = @ + 1, ![i].how = ""]
            /\ UNCHANGED log
       ELSE /\ hpc' = [hpc EXCEPT ![i] = "dispatch"]
            /\ stat' = [stat EXCEPT ![i].valid = @ + 1, ![i].how = ""]
            /\ IF ConnOf(conn[i].client_fd) # 0
               THEN Logged(ConnOf(conn[i].client_fd),
                           Event("r", CommandBytes(hbuf[i])))
               ELSE UNCHANGED log
            /\ UNCHANGED hpos
    /\ UNCHANGED <<mvars, conn, fdtab, backlog, hbuf, hresp, nvars, kvars,
                   atClose, why, cvars>>

\* uds.c:341-345: an invalid burst is discarded
HValidate(i) ==
    /\ hpc[i] = "validate"
    /\ IF verify_command_packet(hbuf[i], hpos[i]) = 0
       THEN /\ hpc' = [hpc EXCEPT ![i] = "recv"]
            /\ hpos' = [hpos EXCEPT ![i] = 0]
            /\ stat' = [stat EXCEPT ![i].bad = @ + 1, ![i].how = ""]
            /\ UNCHANGED log
       ELSE /\ hpc' = [hpc EXCEPT ![i] = "dispatch"]
            /\ stat' = [stat EXCEPT ![i].valid = @ + 1, ![i].how = ""]
            /\ IF ConnOf(conn[i].client_fd) # 0
               THEN Logged(ConnOf(conn[i].client_fd),
                           Event("r", CommandBytes(hbuf[i])))
               ELSE UNCHANGED log
            /\ UNCHANGED hpos
    /\ UNCHANGED <<mvars, conn, fdtab, backlog, hbuf, hresp, nvars, kvars,
                   atClose, why, cvars>>

\* the request dropped when the callback returns no result
HDispatchDropNull(i) ==
    /\ hpc[i] = "dispatch"
    /\ \E ok \in BOOLEAN, junk \in JunkVals :
       \E r \in {my_request_handler(hbuf[i], ok, junk)} :
       \E R \in {handler_response(hbuf[i], r)} :
              IF r = NULL
              THEN /\ hpc' = [hpc EXCEPT ![i] = "recv"]
                   /\ hpos' = [hpos EXCEPT ![i] = 0]
                   /\ stat' = [stat EXCEPT ![i].calls = @ + 1]
                   /\ UNCHANGED <<hresp, hbuf>>
              ELSE /\ hresp' = [hresp EXCEPT ![i] =
                                  [bytes |-> SubSeq(R.resp, 1, R.resp_len),
                                   local |-> R.local,
                                   cmd |-> CommandBytes(hbuf[i])]]
                   /\ hpc' = [hpc EXCEPT ![i] = "reply"]
                   /\ stat' = [stat EXCEPT ![i].calls = @ + 1,
                                           ![i].allocs = @ + 1]
                   /\ UNCHANGED <<hbuf, hpos>>
    /\ UNCHANGED <<mvars, conn, fdtab, backlog, nvars, kvars, log, atClose,
                   why, cvars>>

\* uds.c:347-359: the callback is called and the response made ready; the
\* generic-error response is built in buf itself
HDispatch(i) ==
    /\ hpc[i] = "dispatch"
    /\ \E ok \in BOOLEAN, junk \in JunkVals :
       \E R \in {handler_response(hbuf[i], my_request_handler(hbuf[i], ok, junk))} :
              /\ hresp' = [hresp EXCEPT ![i] =
                             [bytes |-> SubSeq(R.resp, 1, R.resp_len),
                              local |-> R.local,
                              cmd |-> CommandBytes(hbuf[i])]]
              /\ hbuf' = [hbuf EXCEPT ![i] = IF R.local THEN R.resp ELSE @]
              /\ stat' = [stat EXCEPT ![i].calls = @ + 1,
                                      ![i].allocs = @ + (IF R.local THEN 0 ELSE 1)]
    /\ hpc' = [hpc EXCEPT ![i] = "reply"]
    /\ UNCHANGED <<mvars, conn, fdtab, backlog, hpos, nvars, kvars, log,
                   atClose, why, cvars>>

\* what send(fd, buf, len, MSG_NOSIGNAL) returns when it transfers all or
\* nothing: len, or -1 when the descriptor or the peer's end is closed
SendWhole(live, len) == IF live THEN {len} ELSE {-1}

\* what it returns when it transfers a part only (a short write)
SendShort(live, len) == IF live THEN {n \in {len - ShortBy} : n > 0} ELSE {}

\* a short write taken for a whole one
HSendIgnoreShort(i, bytes) ==
    /\ LET c == ConnOf(conn[i].client_fd)
       IN  /\ s2c' = IF bytes > 0
                     THEN [s2c EXCEPT ![c] = @ \o SubSeq(hresp[i].bytes, 1, bytes)]
                     ELSE s2c
           /\ IF bytes > 0
              THEN /\ Logged(c, Event("a", hresp[i].cmd))
                   /\ hpc' = [hpc EXCEPT ![i] = "recv"]
                   /\ hpos' = [hpos EXCEPT ![i] = 0]
                   /\ UNCHANGED why
              ELSE /\ hpc' = [hpc EXCEPT ![i] = "closing"]
                   /\ why' = [why EXCEPT ![i] = "senderr"]
                   /\ UNCHANGED <<log, hpos>>
    /\ stat' = [stat EXCEPT ![i].sends = @ + 1,
                            ![i].frees = @ + (IF hresp[i].local THEN 0 ELSE 1)]
    /\ hresp' = [hresp EXCEPT ![i] = NoResp]
    /\ UNCHANGED <<mvars, conn, fdtab, backlog, hbuf, c2s, copen, sstate,
                   kvars, atClose, cvars>>

\* a response with an error status ends the connection
HSendCloseOnError(i, bytes) ==
    /\ LET c == ConnOf(conn[i].client_fd)
       IN  /\ s2c' = IF bytes > 0
                     THEN [s2c EXCEPT ![c] = @ \o SubSeq(hresp[i].bytes, 1, bytes)]
                     ELSE s2c
           /\ IF bytes = Len(hresp[i].bytes)
                 /\ Command(hresp[i].bytes) = STATUS_SUCCESS
              THEN /\ Logged(c, Event("a", hresp[i].cmd))
                   /\ hpc' = [hpc EXCEPT ![i] = "recv"]
                   /\ hpos' = [hpos EXCEPT ![i] = 0]
                   /\ UNCHANGED why
              ELSE /\ hpc' = [hpc EXCEPT ![i] = "closing"]
                   /\ why' = [why EXCEPT ![i] = "senderr"]
                   /\ UNCHANGED <<log, hpos>>
    /\ stat' = [stat EXCEPT ![i].sends = @ + 1,
                            ![i].frees = @ + (IF hresp[i].local THEN 0 ELSE 1)]
    /\ hresp' = [hresp EXCEPT ![i] = NoResp]
    /\ UNCHANGED <<mvars, conn, fdtab, backlog, hbuf, c2s, copen, sstate,
                   kvars, atClose, cvars>>

\* the response built and released but never written to the socket
HSendNothing(i, bytes) ==
    /\ LET c == ConnOf(conn[i].client_fd)
       IN  /\ UNCHANGED s2c
           /\ IF bytes = Len(hresp[i].bytes)
              THEN /\ Logged(c, Event("a", hresp[i].cmd))
                   /\ hpc' = [hpc EXCEPT ![i] = "recv"]
                   /\ hpos' = [hpos EXCEPT ![i] = 0]
                   /\ UNCHANGED why
              ELSE /\ hpc' = [hpc EXCEPT ![i] = "closing"]
                   /\ why' = [why EXCEPT ![i] = "senderr"]
                   /\ UNCHANGED <<log, hpos>>
    /\ stat' = [stat EXCEPT ![i].sends = @ + 1,
                            ![i].frees = @ + (IF hresp[i].local THEN 0 ELSE 1)]
    /\ hresp' = [hresp EXCEPT ![i] = NoResp]
    /\ UNCHANGED <<mvars, conn, fdtab, backlog, hbuf, c2s, copen, sstate,
                   kvars, atClose, cvars>>

\* free(resp) without the test for the local buffer
HSendFreeAlways(i, bytes) ==
    /\ LET c == ConnOf(conn[i].client_fd)
       IN  /\ s2c' = IF bytes > 0
                     THEN [s2c EXCEPT ![c] = @ \o SubSeq(hresp[i].bytes, 1, bytes)]
                     ELSE s2c
           /\ IF bytes = Len(hresp[i].bytes)
              THEN /\ Logged(c, Event("a", hresp[i].cmd))
                   /\ hpc' = [hpc EXCEPT ![i] = "recv"]
                   /\ hpos' = [hpos EXCEPT ![i] = 0]
                   /\ UNCHANGED why
              ELSE /\ hpc' = [hpc EXCEPT ![i] = "closing"]
                   /\ why' = [why EXCEPT ![i] = "senderr"]
                   /\ UNCHANGED <<log, hpos>>
    /\ stat' = [stat EXCEPT ![i].sends = @ + 1,
                            ![i].frees = @ + 1]
    /\ hresp' = [hresp EXCEPT ![i] = NoResp]
    /\ UNCHANGED <<mvars, conn, fdtab, backlog, hbuf, c2s, copen, sstate,
                   kvars, atClose, cvars>>

\* uds.c:362-371: send has returned bytes; a response not sent whole ends
\* the loop
HSend(i, bytes) ==
    /\ LET c == ConnOf(conn[i].client_fd)
       IN  /\ s2c' = IF bytes > 0
                     THEN [s2c EXCEPT ![c] = @ \o SubSeq(hresp[i].bytes, 1, bytes)]
                     ELSE s2c
           /\ IF bytes = Len(hresp[i].bytes)
              THEN /\ Logged(c, Event("a", hresp[i].cmd))
                   /\ hpc' = [hpc EXCEPT ![i] = "recv"]
                   /\ hpos' = [hpos EXCEPT ![i] = 0]
                   /\ UNCHANGED why
              ELSE /\ hpc' = [hpc EXCEPT ![i] = "closing"]
                   /\ why' = [why EXCEPT ![i] = "senderr"]
                   /\ UNCHANGED <<log, hpos>>
    /\ stat' = [stat EXCEPT ![i].sends = @ + 1,
                            ![i].frees = @ + (IF hresp[i].local THEN 0 ELSE 1)]
    /\ hresp' = [hresp EXCEPT ![i] = NoResp]
    /\ UNCHANGED <<mvars, conn, fdtab, backlog, hbuf, c2s, copen, sstate,
                   kvars, atClose, cvars>>

\* uds.c:361-371, the response sent whole or not at all
HReply(i) ==
    /\ hpc[i] = "reply"
    /\ \E bytes \in SendWhole(/\ ConnOf(conn[i].client_fd) # 0
                              /\ copen[ConnOf(conn[i].client_fd)],
                              Len(hresp[i].bytes)) :
          HSend(i, bytes)

\* uds.c:361-371, a part of the response sent
HReplyShort(i) ==
    /\ hpc[i] = "reply"
    /\ \E bytes \in SendShort(/\ ConnOf(conn[i].client_fd) # 0
                              /\ copen[ConnOf(conn[i].client_fd)],
                              Len(hresp[i].bytes)) :
          HSend(i, bytes)

\* uds.c:336 and 368: close(sc->client_fd)
HClosing(i) ==
    /\ hpc[i] = "closing"
    /\ CloseFd(conn[i].client_fd)
    /\ hpc' = [hpc EXCEPT ![i] = "release"]
    /\ UNCHANGED <<mvars, conn, backlog, hbuf, hpos, hresp, stat, s2c,
                   copen, kvars, log, atClose, why, cvars>>

\* the thread clears the flag of every slot
HReleaseAll(i) ==
    /\ hpc[i] = "release"
    /\ conn' = [j \in Slots |-> [conn[j] EXCEPT !.inuse = 0]]
    /\ hpc' = [hpc EXCEPT ![i] = "idle"]
    /\ hbuf' = [hbuf EXCEPT ![i] = NULL]
    /\ hpos' = [hpos EXCEPT ![i] = 0]
    /\ stat' = [stat EXCEPT ![i] = NoStat]
    /\ UNCHANGED <<mvars, fdtab, backlog, hresp, nvars, kvars, log, atClose,
                   why, cvars>>

\* the thread ends with its slot's flag left set
HReleaseKeep(i) ==
    /\ hpc[i] = "release"
    /\ hpc' = [hpc EXCEPT ![i] = "idle"]
    /\ hbuf' = [hbuf EXCEPT ![i] = NULL]
    /\ hpos' = [hpos EXCEPT ![i] = 0]
    /\ stat' = [stat EXCEPT ![i] = NoStat]
    /\ UNCHANGED <<mvars, conn, fdtab, backlog, hresp, nvars, kvars, log,
                   atClose, why, cvars>>

\* uds.c:337 and 369, then 374: sc->inuse = 0; the thread ends and its
\* locals with it
HRelease(i) ==
    /\ hpc[i] = "release"
    /\ conn' = [conn EXCEPT ![i].inuse = 0]
    /\ hpc' = [hpc EXCEPT ![i] = "idle"]
    /\ hbuf' = [hbuf EXCEPT ![i] = NULL]
    /\ hpos' = [hpos EXCEPT ![i] = 0]
    /\ stat' = [stat EXCEPT ![i] = NoStat]
    /\ UNCHANGED <<mvars, fdtab, backlog, hresp, nvars, kvars, log, atClose,
                   why, cvars>>

(***************************************************************************)
(* The client process: client_init, then one client_send_request per       *)
(* request of its plan, then client_close (part_000 main, uds.c:562-683).  *)
(* A call that returns NULL ends the client.                               *)
(***************************************************************************)
\* client_close (uds.c:675-683) as the client's main calls it, and the end
\* of the process: what the server had sent and the client's memory are
\* dropped, and the connection's history ends
ClientGone(c) ==
    /\ copen' = [copen EXCEPT ![c] = FALSE]
    /\ ccpc' = [ccpc EXCEPT ![c] = "done"]
    /\ s2c' = [s2c EXCEPT ![c] = <<>>]
    /\ plan' = [plan EXCEPT ![c] = <<>>]
    /\ crbuf' = [crbuf EXCEPT ![c] = NULL]
    /\ cret' = [cret EXCEPT ![c] = NULL]
    /\ clast' = [clast EXCEPT ![c] = NULL]
    /\ log' = [log EXCEPT ![c] = <<>>]

\* the loop test written timeout-- >= 0: one attempt too many
ClientInitOffByOne(c) ==
    /\ ccpc[c] = "start"
    /\ IF Listening
       THEN /\ cinit' = [cinit EXCEPT ![c].tries = @ + 1, ![c].rc = 0]
            /\ sstate' = [sstate EXCEPT ![c] = "queued"]
            /\ backlog' = Append(backlog, c)
            /\ ccpc' = [ccpc EXCEPT ![c] = "ready"]
            /\ UNCHANGED <<copen, s2c, plan, crbuf, cret, clast, log>>
       ELSE /\ cinit' = [cinit EXCEPT ![c].tries = @ + 1, ![c].rc = -1,
                                      ![c].timeout = @ - 1]
            /\ IF cinit[c].timeout >= 0
               THEN UNCHANGED <<copen, ccpc, s2c, plan, crbuf, cret, clast, log>>
               ELSE ClientGone(c)
            /\ UNCHANGED <<sstate, backlog>>
    /\ UNCHANGED <<mvars, conn, fdtab, hvars, c2s, atClose, why, cvars>>

\* uds.c:586-601: one turn of client_init's loop.  connect succeeds while the
\* server listens; after a failure and sleep(1) the test timeout-- > 0
\* decides on another turn; with rc != 0 after the loop the socket is closed,
\* client_init returns NULL and the client ends (part_000:22-25).  malloc
\* and socket have succeeded.
ClientInit(c) ==
    /\ ccpc[c] = "start"
    /\ IF Listening
       THEN /\ cinit' = [cinit EXCEPT ![c].tries = @ + 1, ![c].rc = 0]
            /\ sstate' = [sstate EXCEPT ![c] = "queued"]
            /\ backlog' = Append(backlog, c)
            /\ ccpc' = [ccpc EXCEPT ![c] = "ready"]
            /\ UNCHANGED <<copen, s2c, plan, crbuf, cret, clast, log>>
       ELSE /\ cinit' = [cinit EXCEPT ![c].tries = @ + 1, ![c].rc = -1,
                                      ![c].timeout = @ - 1]
            /\ IF cinit[c].timeout > 0
               THEN UNCHANGED <<copen, ccpc, s2c, plan, crbuf, cret, clast, log>>
               ELSE ClientGone(c)
            /\ UNCHANGED <<sstate, backlog>>
    /\ UNCHANGED <<mvars, conn, fdtab, hvars, c2s, atClose, why, cvars>>

\* the request the caller fills in: command and data_len set, signature and
\* checksum left as they were
CallerPacket(r) == MakePacket(JunkSig(0), r.cmd, 0, r.data)

\* a short write taken for a whole one: the call goes on to read
CSendIgnoreShort(c, req, bytes) ==
    /\ c2s' = IF bytes > 0
              THEN [c2s EXCEPT ![c] = @ \o SubSeq(req, 1, bytes)]
              ELSE c2s
    /\ IF bytes > 0
       THEN /\ clast' = [clast EXCEPT ![c] = req]
            /\ Logged(c, Event("q", CommandBytes(req)))
            /\ ccpc' = [ccpc EXCEPT ![c] = "recv"]
            /\ UNCHANGED plan
       ELSE /\ clast' = [clast EXCEPT ![c] = NULL]
            /\ ccpc' = [ccpc EXCEPT ![c] = "failed"]
            /\ plan' = [plan EXCEPT ![c] = <<>>]
            /\ UNCHANGED log
    /\ crbuf' = [crbuf EXCEPT ![c] = NULL]
    /\ cret' = [cret EXCEPT ![c] = NULL]
    /\ UNCHANGED <<mvars, conn, fdtab, backlog, hvars, s2c, copen, sstate,
                   cinit, atClose, why, cvars>>

\* uds.c:634-638: send has returned bytes; when the request was not sent
\* whole the call returns NULL, and the client's main sends no further
\* request (part_000:36-40)
CSend(c, req, bytes) ==
    /\ c2s' = IF bytes > 0
              THEN [c2s EXCEPT ![c] = @ \o SubSeq(req, 1, bytes)]
              ELSE c2s
    /\ IF bytes = Len(req)
       THEN /\ clast' = [clast EXCEPT ![c] = req]
            /\ Logged(c, Event("q", CommandBytes(req)))
            /\ ccpc' = [ccpc EXCEPT ![c] = "recv"]
            /\ UNCHANGED plan
       ELSE /\ clast' = [clast EXCEPT ![c] = NULL]
            /\ ccpc' = [ccpc EXCEPT ![c] = "failed"]
            /\ plan' = [plan EXCEPT ![c] = <<>>]
            /\ UNCHANGED log
    /\ crbuf' = [crbuf EXCEPT ![c] = NULL]
    /\ cret' = [cret EXCEPT ![c] = NULL]
    /\ UNCHANGED <<mvars, conn, fdtab, backlog, hvars, s2c, copen, sstate,
                   cinit, atClose, why, cvars>>

\* the request sent again while its response is awaited
ClientSendNoWait(c) ==
    /\ ccpc[c] \in {"ready", "recv"}
    /\ plan[c] # <<>>
    /\ \E req \in {client_encode(CallerPacket(Head(plan[c])))} :
       \E bytes \in SendWhole(sstate[c] # "closed", Len(req)) :
          CSend(c, req, bytes)

\* uds.c:629-638: the request is encoded and sent with one send, whole or
\* not at all.  The caller has freed the last response.
ClientSend(c) ==
    /\ ccpc[c] = "ready"
    /\ plan[c] # <<>>
    /\ \E req \in {client_encode(CallerPacket(Head(plan[c])))} :
       \E bytes \in SendWhole(sstate[c] # "closed", Len(req)) :
          CSend(c, req, bytes)

\* uds.c:629-638, a part of the request sent
ClientSendShort(c) ==
    /\ ccpc[c] = "ready"
    /\ plan[c] # <<>>
    /\ \E req \in {client_encode(CallerPacket(Head(plan[c])))} :
       \E bytes \in SendShort(sstate[c] # "closed", Len(req)) :
          CSend(c, req, bytes)

\* the received bytes returned without verify_command_packet
ClientReturnNoVerify(c, buf, n, rest) ==
    /\ crbuf' = [crbuf EXCEPT ![c] = SubSeq(buf, 1, n)]
    /\ s2c' = [s2c EXCEPT ![c] = rest]
    /\ clast' = [clast EXCEPT ![c] = NULL]
    /\ \E ok \in BOOLEAN :
          IF n > 0 /\ ok
          THEN /\ cret' = [cret EXCEPT ![c] = SubSeq(buf, 1, n)]
               /\ plan' = [plan EXCEPT ![c] = Tail(@)]
               /\ Logged(c, Event("x", CommandBytes(clast[c])))
               /\ ccpc' = [ccpc EXCEPT ![c] = "ready"]
          ELSE /\ cret' = [cret EXCEPT ![c] = NULL]
               /\ plan' = [plan EXCEPT ![c] = <<>>]
               /\ ccpc' = [ccpc EXCEPT ![c] = "failed"]
               /\ UNCHANGED log
    /\ UNCHANGED <<copen, cinit>>

\* uds.c:642-658: recv_data has returned the n bytes of buf, rest is still to
\* be read; a response that verifies is copied for the caller (ok: malloc
\* succeeded), else the call returns NULL; the descriptor stays as it is
ClientReturn(c, buf, n, rest) ==
    /\ crbuf' = [crbuf EXCEPT ![c] = SubSeq(buf, 1, n)]
    /\ s2c' = [s2c EXCEPT ![c] = rest]
    /\ clast' = [clast EXCEPT ![c] = NULL]
    /\ \E ok \in BOOLEAN :
          IF n > 0 /\ verify_command_packet(buf, n) # 0 /\ ok
          THEN /\ cret' = [cret EXCEPT ![c] = SubSeq(buf, 1, n)]
               /\ plan' = [plan EXCEPT ![c] = Tail(@)]
               /\ Logged(c, Event("x", CommandBytes(clast[c])))
               /\ ccpc' = [ccpc EXCEPT ![c] = "ready"]
          ELSE /\ cret' = [cret EXCEPT ![c] = NULL]
               /\ plan' = [plan EXCEPT ![c] = <<>>]
               /\ ccpc' = [ccpc EXCEPT ![c] = "failed"]
               /\ UNCHANGED log
    /\ UNCHANGED <<copen, cinit>>

\* uds.c:54-67 in the client: recv, blocked until the server has sent or
\* closed
ClientRecv(c) ==
    /\ ccpc[c] = "recv"
    /\ LET k == Min(Len(s2c[c]), UDS_BUF_SIZE - Len(crbuf[c]))
           got == crbuf[c] \o SubSeq(s2c[c], 1, k)
           rest == SubSeq(s2c[c], k + 1, Len(s2c[c]))
       IN  IF s2c[c] # <<>>
           THEN IF Len(got) >= UDS_BUF_SIZE
                THEN ClientReturn(c, got, Len(got), rest)
                ELSE /\ crbuf' = [crbuf EXCEPT ![c] = got]
                     /\ s2c' = [s2c EXCEPT ![c] = rest]
                     /\ ccpc' = [ccpc EXCEPT ![c] = "select"]
                     /\ UNCHANGED <<cret, plan, log, copen, clast, cinit>>
           ELSE /\ sstate[c] = "closed"
                /\ ClientReturn(c, crbuf[c], Len(crbuf[c]), <<>>)
    /\ UNCHANGED <<mvars, conn, fdtab, backlog, hvars, c2s, sstate, atClose,
                   why, cvars>>

\* uds.c:75-84 in the client: select; count <= 0 ends the burst
ClientSelect(c) ==
    /\ ccpc[c] = "select"
    /\ IF s2c[c] # <<>> \/ sstate[c] = "closed"
       THEN /\ ccpc' = [ccpc EXCEPT ![c] = "recv"]
            /\ UNCHANGED <<cret, plan, log, copen, clast, crbuf, s2c, cinit>>
       ELSE ClientReturn(c, crbuf[c], Len(crbuf[c]), s2c[c])
    /\ UNCHANGED <<mvars, conn, fdtab, backlog, hvars, c2s, sstate, atClose,
                   why, cvars>>

\* part_000 main: client_close after the last request, or after a call that
\* returned NULL
ClientClose(c) ==
    /\ \/ ccpc[c] = "ready" /\ plan[c] = <<>>
       \/ ccpc[c] = "failed"
    /\ ClientGone(c)
    /\ UNCHANGED <<mvars, conn, fdtab, backlog, hvars, c2s, sstate, cinit,
                   atClose, why, cvars>>

(***************************************************************************)
(* The specifications of the system.                                       *)
(*                                                                         *)
(* Spec: the running server with NumClients clients, one more than it has  *)
(* slots, each issuing one request.  ShutSpec: the server with as many     *)
(* clients as slots, SIGINT at any time, and server_close; FairSpec is     *)
(* ShutSpec with the server's threads scheduled fairly.  ProtoSpec: one    *)
(* connection carrying up to MaxReq requests of any command, a send of     *)
(* either side possibly short.  In Spec and ShutSpec every send transfers  *)
(* all or nothing; FaultSpec is ShutSpec with short writes.  ConnectSpec:  *)
(* a client that starts before the server listens.  ReclaimSpec: Spec with *)
(* clients that connect only while a slot's worth of connections is free.  *)
(***************************************************************************)
\* every client issues one request
ShortPlan == <<Request(CMD_GET_VERSION, <<>>)>>

HandlerNext(i) ==
    \/ HRecv(i)
    \/ HSelect(i)
    \/ HValidate(i)
    \/ HDispatch(i)
    \/ HReply(i)
    \/ HClosing(i)
    \/ HRelease(i)

ClientNext(c) ==
    \/ ClientInit(c)
    \/ ClientSend(c)
    \/ ClientRecv(c)
    \/ ClientSelect(c)
    \/ ClientClose(c)

\* the short writes of the threads and of the clients
ShortWrite(cs) ==
    \/ \E i \in Slots : HReplyShort(i)
    \/ \E c \in cs : ClientSendShort(c)

Init ==
    /\ SysInit({[c \in Clients |-> ShortPlan]}, {MaxTimeout}, TRUE)
    /\ CodecIdle

Next ==
    \/ MainLoop
    \/ MainAccept
    \/ MainScan
    \/ MainRefuse
    \/ MainClaim
    \/ \E i \in Slots : HandlerNext(i)
    \/ \E c \in Clients : ClientNext(c)

Spec == Init /\ [][Next]_vars

\* the clients of ShutSpec: no more than the server has slots
ShutClients == 1..UDS_MAX_CLIENT

ShutInit ==
    /\ SysInit({[c \in Clients |-> IF c \in ShutClients THEN ShortPlan ELSE <<>>]},
               {MaxTimeout}, TRUE)
    /\ CodecIdle

ShutMain ==
    \/ MainLoop
    \/ MainAccept
    \/ MainScan
    \/ MainClaim
    \/ MainClose
    \/ MainJoin

ShutNext ==
    \/ ShutMain
    \/ SigintMain
    \/ \E i \in Slots : SigintHandler(i)
    \/ \E i \in Slots : HandlerNext(i)
    \/ \E c \in ShutClients : ClientNext(c)

ShutSpec == ShutInit /\ [][ShutNext]_vars

\* the kernel schedules every thread of the server that can run
FairSpec ==
    /\ ShutSpec
    /\ WF_vars(ShutMain)
    /\ \A i \in Slots : WF_vars(HandlerNext(i))

\* the codes a request can carry: the three commands, and codes that are none
\* of them (one differs from GET_VERSION only above its low 16 bits)
ProtoCommands ==
    {CMD_GET_VERSION, CMD_GET_MESSAGE, CMD_PUT_MESSAGE, CMD_BOGUS, 0,
     CMD_GET_VERSION + 65536}

\* the requests the example client issues (the message with its NUL), and
\* each other code with no data
ProtoRequests ==
    {Request(cmd, <<>>) : cmd \in ProtoCommands}
        \cup {Request(CMD_PUT_MESSAGE, ClientMsg \o <<0>>)}

ProtoPlans == UNION {[1..n -> ProtoRequests] : n \in 0..MaxReq}

ProtoInit ==
    /\ SysInit({p \in [Clients -> ProtoPlans] : \A c \in Clients : c # 1 => p[c] = <<>>},
               {MaxTimeout}, TRUE)
    /\ CodecIdle

ProtoNext ==
    \/ MainLoop
    \/ MainAccept
    \/ MainScan
    \/ MainClaim
    \/ \E i \in Slots : HandlerNext(i)
    \/ ClientNext(1)
    \/ ShortWrite({1})

ProtoSpec == ProtoInit /\ [][ProtoNext]_vars

\* ProtoSpec with the handler threads scheduled fairly
ProtoFair ==
    /\ ProtoSpec
    /\ \A i \in Slots : WF_vars(HandlerNext(i))

\* n bytes of a message
Filler(n) == [k \in 1..n |-> 65]

\* requests around the size of the receive buffer: one that fits any buffer,
\* one that fills the buffer exactly, one that is Overrun bytes longer, and one
\* that is longer by bytes that are themselves an encoded request
BurstRequests ==
    {Request(CMD_GET_VERSION, <<>>),
     Request(CMD_PUT_MESSAGE, Filler(UDS_BUF_SIZE - HDR_SIZE)),
     Request(CMD_PUT_MESSAGE, Filler(UDS_BUF_SIZE - HDR_SIZE + Overrun)),
     Request(CMD_PUT_MESSAGE,
             Filler(UDS_BUF_SIZE - HDR_SIZE)
                \o client_encode(CallerPacket(Request(CMD_GET_MESSAGE, <<>>))))}

BurstPlans == UNION {[1..n -> BurstRequests] : n \in 1..MaxReq}

BurstInit ==
    /\ SysInit({p \in [Clients -> BurstPlans \cup {<<>>}] :
                   p[1] # <<>> /\ \A c \in Clients : c # 1 => p[c] = <<>>},
               {MaxTimeout}, TRUE)
    /\ CodecIdle

\* ProtoSpec with requests up to and beyond UDS_BUF_SIZE bytes, received whole
\* or in parts
BurstNext ==
    \/ ProtoNext
    \/ \E i \in Slots : HRecvPart(i)

BurstSpec == BurstInit /\ [][BurstNext]_vars

\* ShutSpec with short writes and failing accepts
FaultNext ==
    \/ ShutNext
    \/ ShortWrite(ShutClients)
    \/ MainAcceptFail

FaultSpec == ShutInit /\ [][FaultNext]_vars

\* one client, started before the server listens, with any timeout up to
\* MaxTimeout
ConnectInit ==
    /\ SysInit({[c \in Clients |-> IF c = 1 THEN ShortPlan ELSE <<>>]},
               0..MaxTimeout, FALSE)
    /\ \A c \in Clients \ {1} : cinit[c].arg = MaxTimeout
    /\ CodecIdle

ConnectNext ==
    \/ ServerInit
    \/ MainLoop
    \/ MainAccept
    \/ MainScan
    \/ MainClaim
    \/ \E i \in Slots : HandlerNext(i)
    \/ ClientNext(1)

ConnectSpec == ConnectInit /\ [][ConnectNext]_vars

\* the client holds a connection: from its connect to its close
Connected(c) == ccpc[c] \in {"ready", "recv", "select", "failed"}

\* a client connects only while fewer connections are held than the server
\* has slots
ConnectInTurn(c) ==
    /\ Cardinality({k \in Clients : Connected(k)}) < UDS_MAX_CLIENT
    /\ ClientInit(c)

\* Spec with never more than UDS_MAX_CLIENT connections held at a time
ReclaimNext ==
    \/ MainLoop
    \/ MainAccept
    \/ MainScan
    \/ MainRefuse
    \/ MainClaim
    \/ \E i \in Slots : HandlerNext(i)
    \/ \E c \in Clients : ConnectInTurn(c)
    \/ \E c \in Clients : ClientSend(c)
    \/ \E c \in Clients : ClientRecv(c)
    \/ \E c \in Clients : ClientSelect(c)
    \/ \E c \in Clients : ClientClose(c)

ReclaimSpec == Init /\ [][ReclaimNext]_vars

(***************************************************************************)
(* Properties.                                                             *)
(***************************************************************************)
\* the packet in buf[0..len) carries the magic signature, declares the
\* payload length it has, and its checksum field holds compute_checksum of
\* the same bytes taken with that field zeroed
WellFormed(buf, len) ==
    /\ len >= HDR_SIZE
    /\ GetSignature(buf) = UDS_SIGNATURE
    /\ DataLenIs(buf, len - HDR_SIZE)
    /\ Get16(buf, OFF_CHECKSUM) = compute_checksum(Put16(buf, OFF_CHECKSUM, 0), len)

\* the packet is as an encoder left it
Untouched == cstage \in {"request", "response"} /\ cmod = "none"

\* C1: checksum round trip.  Over a well-formed packet, of even or odd length,
\* compute_checksum returns 0 and verify_command_packet returns 1; every
\* request encoded by client_send_request and every response encoded by
\* request_handle_routine is such a packet.
C1_RoundTrip ==
    cchk =>
        /\ WellFormed(cbuf, clen) => (csum = 0 /\ cres = 1)
        /\ Untouched => WellFormed(cbuf, clen)

\* an encoded request of odd length has been verified
C1_Witness ==
    /\ cchk /\ cstage = "request" /\ cmod = "none"
    /\ clen % 2 = 1 /\ clen > HDR_SIZE
    /\ csum = 0 /\ cres = 1

\* C2: one byte of an accepted packet changed, the observed length kept:
\* verify_command_packet returns 0, unless the folded one's-complement sum of
\* the changed buffer equals that of the original.
C2_SingleByteCorruption ==
    (cchk /\ cmod = "byte" /\ verify_command_packet(corig, clen) = 1) =>
        \/ cres = 0
        \/ FoldCarry(RawSum(cbuf, clen)) = FoldCarry(RawSum(corig, clen))

\* a payload byte of an accepted packet was changed and the packet rejected
C2_Witness ==
    /\ cchk /\ cmod = "byte" /\ cres = 0
    /\ verify_command_packet(corig, clen) = 1
    /\ \E k \in (HDR_SIZE + 1)..clen : cbuf[k] # corig[k]

\* C3: verify_command_packet(buf, n) returns 0 whenever data_len + header
\* size differs from n, whatever the signature and the checksum are.
C3_LengthMismatch ==
    (cchk /\ ~DataLenIs(cbuf, clen - HDR_SIZE)) => cres = 0

\* a length mismatch alone rejects: the signature is right and the checksum
\* over the observed bytes folds to zero
C3_Witness ==
    /\ cchk /\ cmod = "len" /\ cres = 0
    /\ GetSignature(cbuf) = UDS_SIGNATURE
    /\ csum = 0
    /\ ~DataLenIs(cbuf, clen - HDR_SIZE)

\* every byte of buf[0..n) once: a byte at an even offset as the low byte of
\* its word, a byte at an odd offset as the high byte; the last byte of an
\* odd-length buffer stands at an even offset, a word of its own
RECURSIVE ByteSum(_, _)
ByteSum(buf, n) ==
    IF n = 0 THEN 0
    ELSE ByteSum(buf, n - 1) + buf[n] * (IF n % 2 = 0 THEN 256 ELSE 1)

\* C4: compute_checksum sums the len/2 full words and, for an odd length,
\* the final byte exactly once as its own word; for an even length no extra
\* byte.  Two odd-length buffers differing only in the last byte get
\* different checksums.
C4_OddLastByte ==
    cchk =>
        /\ csum = 65535 - FoldCarry(ByteSum(cbuf, clen))
        /\ (/\ cmod = "byte" /\ clen % 2 = 1 /\ cbuf[clen] # corig[clen])
              => csum # compute_checksum(corig, clen)

\* an odd-length buffer with a nonzero last byte whose word count is even,
\* so that the last byte is the one an index-parity test would drop
C4_Witness ==
    /\ cchk /\ clen % 2 = 1 /\ clen > HDR_SIZE
    /\ (clen \div 2) % 2 = 0
    /\ cbuf[clen] # 0


(***************************************************************************)
(* Admission control and shutdown.                                         *)
(***************************************************************************)
AllInUse == \A i \in Slots : conn[i].inuse # 0

\* the step of the main thread that refuses the connection behind cl
RefusalStep == mpc = "full" /\ mpc' # "full"

\* what a refusal does: the connection is closed at once, no slot and no
\* handler thread changes, nothing is sent, nothing of another connection is
\* touched, and the call returns an error
RefusalEffect ==
    /\ sstate'[ConnOf(cl)] = "closed"
    /\ fdtab'[cl] = 0
    /\ rc' = -1
    /\ conn' = conn
    /\ hvars' = hvars
    /\ s2c' = s2c
    /\ \A c \in Clients \ {ConnOf(cl)} :
          c2s'[c] = c2s[c] /\ sstate'[c] = sstate[c]
    /\ \A f \in Fds \ {cl} : fdtab'[f] = fdtab[f]

\* up to its refusal nothing was sent on the connection and nothing received
\* from it, and no handler thread works on its descriptor
NoExchange ==
    mpc = "full" =>
       /\ ConnOf(cl) # 0
       /\ s2c[ConnOf(cl)] = <<>>
       /\ \A k \in 1..Len(log[ConnOf(cl)]) : log[ConnOf(cl)][k].t = "q"
       /\ c2s[ConnOf(cl)] =
             (IF ccpc[ConnOf(cl)] \in {"recv", "select"}
              THEN clast[ConnOf(cl)] ELSE <<>>)
       /\ \A i \in Slots :
             hpc[i] \notin {"idle", "release"} => conn[i].client_fd # cl

\* C5: when every slot is in use the accepted connection is refused, never
\* given a slot; the refusal closes it at once, sends and receives nothing on
\* it, starts no handler thread, changes no slot and returns an error; the
\* connections that hold the slots are left as they were, and a slot is only
\* ever claimed while it is free.
C5_AdmissionControl ==
    /\ [](NoExchange /\ (mpc = "claim" => conn[mi].inuse = 0))
    /\ [][/\ (mpc = "scan" /\ AllInUse => mpc' # "claim")
          /\ (RefusalStep => RefusalEffect)]_vars

\* the third connection has just been refused: its client is still there,
\* the two slots and their connections are as before
C5_Witness ==
    /\ mpc = "loop" /\ rc = -1
    /\ \E c \in Clients : copen[c] /\ sstate[c] = "closed"
    /\ \A i \in Slots :
          /\ conn[i].inuse # 0 /\ hpc[i] \notin {"idle", "closing", "release"}
          /\ ConnOf(conn[i].client_fd) # 0
          /\ copen[ConnOf(conn[i].client_fd)]

\* server_close has returned
Returned == mpc = "done"

\* every peer of a handler thread has disconnected
PeersGone ==
    \A i \in Slots :
       conn[i].inuse # 0 /\ ConnOf(conn[i].client_fd) # 0
          => ~copen[ConnOf(conn[i].client_fd)]

NeverEarly ==
    Returned => \A s \in atClose : ~copen[s[2]]

NeverDeadlocks ==
    (<>[]PeersGone) => ((mpc \in {"close", "join"}) ~> Returned)

\* C6 as stated: server_close returns only after the peer of every handler
\* that was blocked in recv has disconnected, and returns if all peers
\* disconnect.
C6_AsStated == []NeverEarly /\ NeverDeadlocks

\* server_close waits for the thread, and the thread ends on end of file or
\* on a failed recv or send
NotBeforeHandler ==
    Returned =>
       /\ \A i \in Slots : hpc[i] = "idle"
       /\ \A s \in atClose :
             \/ why[s[1]] = "eof" /\ ~copen[s[2]]
             \/ why[s[1]] \in {"recverr", "senderr"}

\* C6: server_close does not return before the handler of a connection that
\* was blocked in recv has ended, which it does only once the peer has
\* disconnected or a recv or send of the handler has failed; and if every
\* peer disconnects, server_close returns.
C6_Shutdown == []NotBeforeHandler /\ NeverDeadlocks

\* server_close has returned after waiting for a peer to disconnect
C6_Witness ==
    /\ Returned
    /\ atClose # {}
    /\ \A s \in atClose : why[s[1]] = "eof" /\ ~copen[s[2]]


(***************************************************************************)
(* The exchange on one connection.                                         *)
(***************************************************************************)
\* a generic-error packet: the header alone, status = STATUS_ERROR,
\* data_len = 0, the protocol's signature, a checksum that verifies
GenericError(pkt) ==
    /\ Len(pkt) = HDR_SIZE
    /\ Command(pkt) = STATUS_ERROR
    /\ DataLenIs(pkt, 0)
    /\ GetSignature(pkt) = UDS_SIGNATURE
    /\ verify_command_packet(pkt, Len(pkt)) = 1

\* the callback has been called once for every burst accepted, and a
\* response sent once for every call, but for the request in hand
OncePerBurst(i) ==
    /\ stat[i].calls = stat[i].valid - (IF hpc[i] = "dispatch" THEN 1 ELSE 0)
    /\ stat[i].sends = stat[i].valid - (IF hpc[i] \in {"dispatch", "reply"} THEN 1 ELSE 0)

\* a response is in hand exactly between the callback and the send; one made
\* without a result of the callback is the generic error, and lies in buf
ResponseInHand(i) ==
    /\ (hresp[i].bytes # NULL) <=> (hpc[i] = "reply")
    /\ hpc[i] = "reply" =>
          /\ verify_command_packet(hresp[i].bytes, Len(hresp[i].bytes)) = 1
          /\ hresp[i].local =>
                /\ GenericError(hresp[i].bytes)
                /\ SubSeq(hbuf[i], 1, HDR_SIZE) = hresp[i].bytes

\* C7: for each burst that passes verify_command_packet the handler calls
\* the callback exactly once and sends exactly one response before it reads
\* again; when the callback returns no result the response is the
\* generic-error packet (STATUS_ERROR, data_len 0) built in the inbound
\* buffer with the request's signature and a fresh checksum, and it passes
\* the client's validation.
C7_AnsweredOnce ==
    \A i \in Slots : OncePerBurst(i) /\ ResponseInHand(i)

\* a client holds the generic-error response its handler sent for a request
\* the callback gave no result for
C7_Witness ==
    \E c \in Clients, i \in Slots :
       /\ cret[c] # NULL /\ GenericError(cret[c])
       /\ hpc[i] = "recv" /\ stat[i].valid = 1 /\ stat[i].calls = 1
       /\ stat[i].sends = 1

\* the kth event of a connection's history is the kth of q r a x q r a x ...
\* and carries the command of the request that opened its round
InTurn(h, k) ==
    /\ h[k].t = <<"q", "r", "a", "x">>[((k - 1) % 4) + 1]
    /\ h[k].cmd = h[k - ((k - 1) % 4)].cmd

\* C8: on a connection requests and responses strictly alternate: request
\* k is sent, received and answered, and the client's call for it returns,
\* before request k+1 is sent; the responses come in the order of the
\* requests.
C8_Alternation ==
    \A c \in Clients : \A k \in 1..Len(log[c]) : InTurn(log[c], k)

\* two requests have been exchanged on one connection
C8_Witness ==
    \E c \in Clients :
       /\ Len(log[c]) >= 8
       /\ log[c][5].cmd # log[c][1].cmd

\* the command bytes of the three commands
KnownCommands ==
    {CommandBytes(MakePacket(UDS_SIGNATURE, cmd, 0, <<>>)) :
        cmd \in {CMD_GET_VERSION, CMD_GET_MESSAGE, CMD_PUT_MESSAGE}}

\* the client's last call has returned the response cret[c] to a request
\* with command bytes cmd
Answered(c, cmd) ==
    /\ cret[c] # NULL
    /\ log[c] # <<>>
    /\ log[c][Len(log[c])] = Event("x", cmd)

UnknownCommands == {CommandBytes(CallerPacket(r)) : r \in ProtoRequests} \ KnownCommands

InvalidCommand(pkt) ==
    /\ Len(pkt) = HDR_SIZE
    /\ Command(pkt) = STATUS_INVALID_COMMAND
    /\ DataLenIs(pkt, 0)
    /\ verify_command_packet(pkt, Len(pkt)) = 1

UnknownAnswer(i) ==
    hpc[i] = "reply" /\ hresp[i].cmd \notin KnownCommands
       => IF hresp[i].local THEN GenericError(hresp[i].bytes)
          ELSE InvalidCommand(hresp[i].bytes)

VersionBytes == CommandBytes(MakePacket(UDS_SIGNATURE, CMD_GET_VERSION, 0, <<>>))

VersionResponse(pkt) ==
    /\ Len(pkt) = HDR_SIZE + 2
    /\ Command(pkt) = STATUS_SUCCESS
    /\ DataLenIs(pkt, 2)
    /\ Payload(pkt) = <<1, 0>>
    /\ verify_command_packet(pkt, Len(pkt)) = 1

\* C10 as stated: every GET_VERSION request is answered with status
\* success, data_len 2, the payload (major, minor), in header size + 2
\* bytes.
C10_AsStated ==
    \A c \in Clients :
       Answered(c, VersionBytes) => VersionResponse(cret[c])

VersionAnswer(i) ==
    hpc[i] = "reply" /\ hresp[i].cmd = VersionBytes
       => IF hresp[i].local THEN GenericError(hresp[i].bytes)
          ELSE VersionResponse(hresp[i].bytes)

\* C10: a valid GET_VERSION request with empty payload is answered with
\* status success, data_len 2 and the payload (major, minor) = (1, 0), the
\* response the client receives being header size + 2 bytes long; unless the
\* callback could not allocate its response, when the answer is the generic
\* error.
C10_GetVersion ==
    /\ \A i \in Slots : VersionAnswer(i)
    /\ \A c \in Clients :
          Answered(c, VersionBytes)
          => VersionResponse(cret[c]) \/ GenericError(cret[c])

\* a client holds the version response
C10_Witness ==
    \E c \in Clients :
       Answered(c, VersionBytes) /\ VersionResponse(cret[c])

(***************************************************************************)
(* The messages.                                                           *)
(***************************************************************************)
PutBytes == CommandBytes(MakePacket(UDS_SIGNATURE, CMD_PUT_MESSAGE, 0, <<>>))

GetMsgBytes == CommandBytes(MakePacket(UDS_SIGNATURE, CMD_GET_MESSAGE, 0, <<>>))

\* a string with its terminating NUL
NulTerminated(data) == data # <<>> /\ data[Len(data)] = 0

\* a success response without payload
EmptySuccess(pkt) ==
    /\ Len(pkt) = HDR_SIZE
    /\ Command(pkt) = STATUS_SUCCESS
    /\ DataLenIs(pkt, 0)
    /\ verify_command_packet(pkt, Len(pkt)) = 1

\* the request the callback is called with holds the payload the client's
\* caller passed, byte for byte
PutReceived(i) ==
    hpc[i] = "dispatch" /\ CommandBytes(hbuf[i]) = PutBytes
       => /\ ConnOf(conn[i].client_fd) # 0
          /\ plan[ConnOf(conn[i].client_fd)] # <<>>
          /\ Payload(hbuf[i]) = Head(plan[ConnOf(conn[i].client_fd)]).data
          /\ SubSeq(hbuf[i], 1, hpos[i]) = clast[ConnOf(conn[i].client_fd)]

\* C11 as stated: the response to a PUT_MESSAGE request with a
\* NUL-terminated payload has status success and data_len 0.
C11_AsStated ==
    \A i \in Slots :
       (/\ hpc[i] = "reply" /\ hresp[i].cmd = PutBytes
        /\ ConnOf(conn[i].client_fd) # 0
        /\ NulTerminated(Payload(clast[ConnOf(conn[i].client_fd)])))
          => EmptySuccess(hresp[i].bytes)

PutAnswer(i) ==
    hpc[i] = "reply" /\ hresp[i].cmd = PutBytes
       => IF hresp[i].local THEN GenericError(hresp[i].bytes)
          ELSE EmptySuccess(hresp[i].bytes)

\* C11: the callback receives a valid PUT_MESSAGE request with exactly the
\* payload bytes the client sent, the terminating NUL included, and the
\* response has status success and data_len 0; unless the callback could not
\* allocate its response, when the answer is the generic error.
C11_PutMessage ==
    /\ \A i \in Slots : PutReceived(i) /\ PutAnswer(i)
    /\ \A c \in Clients :
          Answered(c, PutBytes) => EmptySuccess(cret[c]) \/ GenericError(cret[c])

\* the callback has answered the example client's message, which lies with
\* its NUL in the handler's buffer
C11_Witness ==
    \E i \in Slots :
       /\ hpc[i] = "reply" /\ hresp[i].cmd = PutBytes /\ ~hresp[i].local
       /\ EmptySuccess(hresp[i].bytes)
       /\ Payload(hbuf[i]) = ClientMsg \o <<0>>
       /\ stat[i].calls = stat[i].valid

\* C12: the payload of a success response to GET_MESSAGE, the data_len bytes
\* after the header that the client receives, is a NUL-terminated string: its
\* last transmitted byte is NUL.
C12_GetMessage ==
    \A c \in Clients :
       Answered(c, GetMsgBytes) /\ Command(cret[c]) = STATUS_SUCCESS
          => NulTerminated(Payload(cret[c]))


(***************************************************************************)
(* The client session.                                                     *)
(***************************************************************************)
\* a result is held only after a call whose burst was a packet that
\* verifies, and is that burst byte for byte
ResultIsBurst(c) ==
    cret[c] # NULL
       => /\ ccpc[c] = "ready"
          /\ verify_command_packet(crbuf[c], Len(crbuf[c])) = 1
          /\ cret[c] = crbuf[c]
          /\ Len(cret[c]) = HDR_SIZE + DataLen(cret[c])

\* a call that failed has returned no result and left the descriptor open
FailureKeepsOpen(c) ==
    ccpc[c] = "failed" => cret[c] = NULL /\ copen[c]

\* the step on which a call of client_send_request returns NULL
CallFails(c) == ccpc[c] \in {"ready", "recv", "select"} /\ ccpc'[c] = "failed"

\* C13: client_send_request returns a result only when its one burst
\* delivered a packet that passes verify_command_packet, the result being a
\* copy of exactly the received bytes (header size + data_len of them); a
\* burst of no bytes or an invalid one gives no result; and a call that
\* fails leaves the client's descriptor open and as it was.
C13_ResponseRetrieval ==
    /\ [](\A c \in Clients : ResultIsBurst(c) /\ FailureKeepsOpen(c))
    /\ [][\A c \in Clients :
            CallFails(c) => cret'[c] = NULL /\ copen'[c] /\ copen[c]]_vars

\* a call has returned no result for a burst that does not verify, and the
\* descriptor is open
C13_Witness ==
    \E c \in Clients :
       /\ ccpc[c] = "failed" /\ cret[c] = NULL /\ copen[c]
       /\ crbuf[c] # <<>>
       /\ verify_command_packet(crbuf[c], Len(crbuf[c])) = 0

\* the request as client_send_request encodes it
Encoded(c) == client_encode(CallerPacket(Head(plan[c])))

\* the client's one write: the whole request, or on a failure a part of it,
\* after which the call has returned with no result and has read nothing
OneWrite(c) ==
    /\ (ccpc[c] = "ready" /\ ccpc'[c] = "recv")
          => c2s'[c] = c2s[c] \o Encoded(c) /\ clast'[c] = Encoded(c)
    /\ (ccpc[c] = "ready" /\ ccpc'[c] = "failed")
          => /\ \E n \in 0..(Len(Encoded(c)) - 1) :
                   c2s'[c] = c2s[c] \o SubSeq(Encoded(c), 1, n)
             /\ cret'[c] = NULL /\ crbuf'[c] = NULL
             /\ s2c'[c] = s2c[c]
             /\ copen'[c] = copen[c]

\* nothing is written while the response is awaited, nor after a failure
NoResend(c) ==
    ccpc[c] \in {"recv", "select", "failed"} => Len(c2s'[c]) <= Len(c2s[c])

\* C14: client_send_request writes the whole encoded request with one send;
\* when the send transfers fewer bytes than the request has, or fails, the
\* call returns no result at once: nothing of the request is sent again and
\* no response is read.
C14_OneWrite ==
    [][\A c \in Clients : OneWrite(c) /\ NoResend(c)]_vars

\* a call has failed on a short write: a part of the request is on the
\* connection, nothing has been read
C14_Witness ==
    \E c \in Clients :
       /\ ccpc[c] = "failed" /\ cret[c] = NULL /\ crbuf[c] = NULL
       /\ c2s[c] # <<>>
       /\ verify_command_packet(c2s[c], Len(c2s[c])) = 0

\* client_init of client c has returned, with a session or without
InitReturned(c) == ccpc[c] # "start"

\* the attempts of client_init: never more than timeout + 1; every failed
\* attempt but the last uses up one retry; it returns at the first success,
\* or after timeout + 1 failures with the socket closed
BoundedAttempts(c) ==
    /\ cinit[c].tries <= cinit[c].arg + 1
    /\ ~InitReturned(c)
          => /\ cinit[c].timeout = cinit[c].arg - cinit[c].tries
             /\ cinit[c].rc # 0
             /\ copen[c]
    /\ InitReturned(c) => cinit[c].tries >= 1
    /\ (InitReturned(c) /\ cinit[c].rc # 0)
          => /\ cinit[c].tries = cinit[c].arg + 1
             /\ ccpc[c] = "done" /\ ~copen[c]
    /\ (InitReturned(c) /\ cinit[c].arg = 0) => cinit[c].tries = 1

\* C15: client_init(path, timeout) makes a first connect attempt and at most
\* timeout further ones, one after each failure; it returns a session as
\* soon as an attempt succeeds, and when all timeout + 1 attempts have failed
\* it closes the socket and returns no session.  With timeout = 0 exactly
\* one attempt is made.
C15_ConnectRetry ==
    /\ [](\A c \in Clients : BoundedAttempts(c))
    /\ [][\A c \in Clients :
            /\ cinit[c].rc = 0 => cinit'[c] = cinit[c]
            /\ (cinit[c].rc # 0 /\ cinit'[c].rc = 0)
                  => ccpc'[c] = "ready" /\ copen'[c]]_vars

\* a client has connected at its last attempt, the server having started to
\* listen in time
C15_Witness ==
    \E c \in Clients :
       /\ cinit[c].rc = 0 /\ ccpc[c] = "ready"
       /\ cinit[c].arg = MaxTimeout
       /\ cinit[c].tries = MaxTimeout + 1


(***************************************************************************)
(* The handler's errors and the life of a slot.                            *)
(***************************************************************************)
\* the thread of slot i works on its descriptor
Working(i) == hpc[i] \notin {"idle", "release"}

\* a step of the teardown of slot i's connection: the thread leaves its loop,
\* closes the descriptor, or clears the flag and ends
TeardownStep(i) ==
    \/ hpc[i] # "closing" /\ hpc'[i] = "closing"
    \/ hpc[i] = "closing" /\ hpc'[i] # "closing"
    \/ hpc[i] = "release" /\ hpc'[i] # "release"

\* what a teardown step of slot i leaves alone: the other slots, their
\* threads and descriptors, every other connection, the clients, the main
\* thread and the listening socket; loop_flag changes only with the SIGINT
\* that interrupted the recv
OthersUntouched(i) ==
    /\ \A j \in Slots \ {i} :
          /\ conn'[j] = conn[j]
          /\ hpc'[j] = hpc[j] /\ hbuf'[j] = hbuf[j] /\ hpos'[j] = hpos[j]
          /\ hresp'[j] = hresp[j] /\ stat'[j] = stat[j] /\ why'[j] = why[j]
          /\ Working(j) => fdtab'[conn[j].client_fd] = fdtab[conn[j].client_fd]
    /\ \A f \in Fds \ {conn[i].client_fd} : fdtab'[f] = fdtab[f]
    /\ \A c \in Clients \ {ConnOf(conn[i].client_fd)} :
          sstate'[c] = sstate[c] /\ c2s'[c] = c2s[c] /\ s2c'[c] = s2c[c]
    /\ conn'[i].client_fd = conn[i].client_fd
    /\ <<mpc, mi, cl, rc, backlog>>' = <<mpc, mi, cl, rc, backlog>>
    /\ Listening' = Listening
    /\ loop_flag' = loop_flag \/ why'[i] = "recverr"
    /\ copen' = copen /\ kvars' = kvars

\* no two working threads hold the same descriptor
OwnDescriptor ==
    \A i, j \in Slots :
       i # j /\ Working(i) /\ Working(j) => conn[i].client_fd # conn[j].client_fd

\* C16: a receive failure, a peer close or a short write on one connection
\* changes only that connection's slot flag, thread and descriptor: every
\* other slot's flag, descriptor and thread, every other connection, the
\* main thread and the listening socket are as before, and the other
\* connections go on being served.
C16_ConnectionFatalOnly ==
    /\ []OwnDescriptor
    /\ [][\A i \in Slots : TeardownStep(i) => OthersUntouched(i)]_vars

\* one slot has been torn down after a short write while the thread of the
\* other is answering a request and the server accepts
C16_Witness ==
    \E i, j \in Slots :
       /\ i # j
       /\ why[i] = "senderr" /\ hpc[i] = "idle" /\ conn[i].inuse = 0
       /\ hpc[j] = "reply" /\ conn[j].inuse # 0
       /\ ConnOf(conn[j].client_fd) # 0
       /\ copen[ConnOf(conn[j].client_fd)]
       /\ loop_flag # 0 /\ mpc \in {"loop", "accept"}

\* the step on which the thread of slot i drops an invalid burst
DiscardStep(i) ==
    /\ hpc[i] = "validate" /\ hpc'[i] # "validate"
    /\ verify_command_packet(hbuf[i], hpos[i]) = 0

\* the burst is dropped: no callback, no reply, the descriptor open, the slot
\* in use, the thread back at the start of a burst
Discarded(i) ==
    /\ hpc'[i] = "recv" /\ hpos'[i] = 0
    /\ stat'[i].calls = stat[i].calls /\ stat'[i].sends = stat[i].sends
    /\ stat'[i].bad = stat[i].bad + 1
    /\ hresp' = hresp /\ s2c' = s2c /\ log' = log
    /\ conn' = conn /\ fdtab' = fdtab /\ sstate' = sstate
    /\ why' = why

\* C17: a burst that fails verify_command_packet is dropped: the callback is
\* not called, no reply is sent, the descriptor stays open and the slot in
\* use, and the handler receives the next burst; the callback is only ever
\* called with a burst that verifies.
C17_PacketFatalOnly ==
    /\ [](\A i \in Slots :
            /\ hpc[i] = "dispatch"
                  => verify_command_packet(hbuf[i], hpos[i]) = 1
            /\ OncePerBurst(i))
    /\ [][\A i \in Slots : DiscardStep(i) => Discarded(i)]_vars

\* a thread has dropped a burst and waits for the next one, its connection
\* open: nothing was dispatched, nothing sent
C17_Witness ==
    \E i \in Slots :
       /\ stat[i].bad = 1 /\ stat[i].calls = 0 /\ stat[i].sends = 0
       /\ hpc[i] = "recv" /\ hpos[i] = 0
       /\ conn[i].inuse # 0
       /\ ConnOf(conn[i].client_fd) # 0
       /\ s2c[ConnOf(conn[i].client_fd)] = <<>>

\* the step on which a recv of slot i's thread returns zero or a negative
\* value: the burst ends with no byte added
BadRecv(i) ==
    /\ hpc[i] = "recv" /\ hpc'[i] \in {"closing", "validate"}
    /\ hpos'[i] = hpos[i] /\ hbuf'[i] = hbuf[i]

\* CLOSED: the descriptor is closed, then the flag cleared and the thread
\* ended
Closes(i) ==
    /\ (hpc[i] = "closing" /\ hpc'[i] # "closing")
          => hpc'[i] = "release" /\ fdtab'[conn[i].client_fd] = 0
    /\ (hpc[i] = "release" /\ hpc'[i] # "release")
          => hpc'[i] = "idle" /\ conn'[i].inuse = 0

\* C18 as stated: a zero or negative result of recv sends the handler to
\* CLOSED with nothing of the burst validated, also when the burst had
\* already accumulated bytes.
C18_AsStated ==
    [][\A i \in Slots : BadRecv(i) => hpc'[i] = "closing"]_vars

\* C18: a zero-byte result (peer closed) or a negative result of recv ends
\* the burst at once.  When the burst had accumulated no byte, the handler
\* goes to CLOSED (closes the descriptor, clears the flag, ends its thread)
\* with nothing validated or dispatched; when it had accumulated bytes,
\* recv_data returns their count and the handler validates them as any burst.
C18_Receiving ==
    /\ [][\A i \in Slots :
            /\ BadRecv(i) =>
                  IF hpos[i] = 0
                  THEN /\ hpc'[i] = "closing"
                       /\ why'[i] \in {"eof", "recverr"}
                       /\ stat'[i] = stat[i] /\ hresp'[i] = hresp[i]
                  ELSE /\ hpc'[i] = "validate"
                       /\ stat'[i].how \in {"eof", "recverr"}
            /\ Closes(i)]_vars
    /\ [](\A i \in Slots :
            why[i] \in {"eof", "recverr"} => ~Working(i) \/ hpc[i] = "closing")

\* the bytes of a burst that the peer's close ended are being validated
C18_Witness ==
    \E i \in Slots :
       /\ hpc[i] = "validate" /\ stat[i].how = "eof"
       /\ hpos[i] > 0

\* the step on which the send of slot i's thread returns
ReplyStep(i) == hpc[i] = "reply" /\ hpc'[i] # "reply"

\* the response went out whole
SentWhole(i) ==
    /\ ConnOf(conn[i].client_fd) # 0
    /\ s2c'[ConnOf(conn[i].client_fd)] =
          s2c[ConnOf(conn[i].client_fd)] \o hresp[i].bytes

\* C19: when the send of the response transfers another number of bytes
\* than the response has, the handler goes to CLOSED: it closes the
\* descriptor, clears the slot's flag and ends its thread, and reads no
\* further request on the connection.
C19_Replying ==
    /\ [][\A i \in Slots :
            /\ ReplyStep(i) =>
                  IF SentWhole(i)
                  THEN hpc'[i] = "recv"
                  ELSE hpc'[i] = "closing" /\ why'[i] = "senderr"
            /\ Closes(i)]_vars
    /\ [](\A i \in Slots : why[i] = "senderr" => ~Working(i) \/ hpc[i] = "closing")

\* after a short write the thread has ended: the descriptor is closed, the
\* flag cleared, and the part of the response that was sent lies unread
C19_Witness ==
    \E i \in Slots, c \in Clients :
       /\ why[i] = "senderr" /\ hpc[i] = "idle" /\ conn[i].inuse = 0
       /\ ConnOf(conn[i].client_fd) = 0
       /\ sstate[c] = "closed"
       /\ s2c[c] # <<>>
       /\ verify_command_packet(s2c[c], Len(s2c[c])) = 0

\* never more connections are held than the server has slots
WithinCapacity == Cardinality({c \in Clients : Connected(c)}) <= UDS_MAX_CLIENT

\* C20 as stated: while at most UDS_MAX_CLIENT connections are open at a
\* time, no connection is refused.
C20_AsStated == WithinCapacity => mpc # "full"

\* the main thread claims slot mi for the connection it accepted
ClaimStep == mpc = "claim" /\ conn'[mi].inuse # 0 /\ hpc'[mi] # "idle"

\* C20: a handler that leaves its loop closes its descriptor and clears its
\* slot's flag, and from then on a connection accepted later can claim the
\* slot; a slot is claimed only while its flag is clear, and a connection is
\* refused only when the scan found every flag set, which also happens to a
\* connection accepted before the thread of a peer that has gone has cleared
\* its flag.
C20_Reclaim ==
    /\ [](/\ WithinCapacity
          /\ \A i \in Slots :
                /\ hpc[i] = "idle" => conn[i].inuse = 0
                /\ Working(i) => conn[i].inuse # 0
                /\ why[i] # "" => ~Working(i) \/ hpc[i] = "closing")
    /\ [][/\ \A i \in Slots : Closes(i)
          /\ ClaimStep => conn[mi].inuse = 0 /\ hpc[mi] = "idle"
          /\ (mpc = "scan" /\ mi' = mi + 1) => conn[mi].inuse # 0]_vars

\* a slot serves its second connection
C20_Witness ==
    \E i \in Slots :
       /\ conn[i].gen = 2 /\ conn[i].inuse # 0
       /\ hpc[i] = "dispatch"
       /\ ConnOf(conn[i].client_fd) # 0


(***************************************************************************)
(* Shutdown and the threads that have ended.                               *)
(***************************************************************************)
\* the threads started in slot i that no pthread_join has returned for
Unjoined(i) == conn[i].gen - conn[i].joined

\* C21: once server_close has returned and the server is released, every
\* handler thread that was ever started has been joined, those that had
\* reached CLOSED and ended before the shutdown included.
C21_AllJoined ==
    mpc = "done" => \A i \in Slots : Unjoined(i) = 0

\* server_close has joined the thread of a slot it found in use, and the
\* thread of another connection that had ended before was not joined
C21_Witness ==
    /\ mpc = "done"
    /\ \E i, j \in Slots :
          /\ conn[i].joined = 1 /\ conn[i].gen = 1
          /\ Unjoined(j) > 0

\* the step on which accept returns -1
AcceptFails == mpc = "accept" /\ mpc' \notin {"accept", "scan"}

\* the step on which main tests loop_flag
LoopTest == mpc = "loop" /\ mpc' # "loop"

\* nothing has ever been accepted
NothingAccepted ==
    /\ conn = NoConn
    /\ \A f \in Fds : fdtab[f] = 0
    /\ \A i \in Slots : hpc[i] = "idle"

\* C22 as stated: after a failed accept the loop goes on to the next accept
\* unless the listening socket has been torn down.
C22_AsStated ==
    [][(LoopTest /\ rc = -1 /\ Listening) => mpc' = "accept"]_vars

\* C22: a failed accept makes server_accept_request return -1 with no slot
\* changed, no thread started and the listening socket as it was; the loop
\* drops the value returned: it goes on to the next accept while loop_flag is
\* set and ends when loop_flag is clear, with the listening socket still
\* open, which server_close closes afterwards.
C22_AcceptFailure ==
    /\ [][/\ AcceptFails =>
                /\ mpc' = "loop" /\ rc' = -1
                /\ conn' = conn /\ hvars' = hvars /\ why' = why
                /\ fdtab' = fdtab /\ backlog' = backlog /\ nvars' = nvars
          /\ LoopTest =>
                /\ mpc' = (IF loop_flag # 0 THEN "accept" ELSE "close")
                /\ Listening']_vars
    /\ [](mpc \in {"accept", "scan", "full", "claim"} => Listening)

\* accept has failed before anything was accepted, and loop_flag is set: the
\* next step of main is another accept
C22_Witness ==
    /\ mpc = "loop" /\ rc = -1 /\ loop_flag # 0
    /\ NothingAccepted

(***************************************************************************)
(* The bursts of recv_data.                                                *)
(***************************************************************************)
\* the bytes still to be read on the connection of slot i
Queued(i) ==
    IF ConnOf(conn[i].client_fd) = 0 THEN <<>> ELSE c2s[ConnOf(conn[i].client_fd)]

\* the step on which a recv of slot i's thread returns, and the bytes it
\* has taken
RecvStep(i) == hpc[i] = "recv" /\ hpc'[i] # "recv"

Taken(i) == Len(Queued(i)) - Len(Queued(i)')

\* a positive result: the bytes taken are the first of those queued, they
\* lie in buf from pos on, what buf held before pos is kept, and pos has
\* advanced by their number; the burst ends at once when the buffer is full
\* and goes on to the wait otherwise
Accumulates(i) ==
    /\ Taken(i) <= UDS_BUF_SIZE - hpos[i]
    /\ hpos'[i] = hpos[i] + Taken(i)
    /\ SubSeq(hbuf'[i], hpos[i] + 1, hpos'[i]) = SubSeq(Queued(i), 1, Taken(i))
    /\ SubSeq(hbuf'[i], 1, hpos[i]) = SubSeq(hbuf[i], 1, hpos[i])
    /\ Queued(i)' = SubSeq(Queued(i), Taken(i) + 1, Len(Queued(i)))
    /\ IF hpos'[i] >= UDS_BUF_SIZE
       THEN hpc'[i] = "validate" /\ stat'[i].how = "full"
       ELSE hpc'[i] = "select"

\* the step on which the wait of slot i's thread ends: with data ready the
\* burst goes on, pos as it was; with none the burst ends and pos is returned
WaitStep(i) == hpc[i] = "select" /\ hpc'[i] # "select"

WaitEnds(i) ==
    /\ hpos'[i] = hpos[i] /\ hbuf'[i] = hbuf[i] /\ Queued(i)' = Queued(i)
    /\ IF Queued(i) # <<>>
       THEN hpc'[i] = "recv"
       ELSE hpc'[i] = "recv" \/ (hpc'[i] = "validate" /\ stat'[i].how = "quiet")

\* C23: a burst of recv_data returns the number of bytes accumulated from
\* its positive receive results: it starts at pos 0, each recv takes at most
\* len - pos bytes and advances pos by what it took, pos never exceeds len,
\* the burst ends at once when the buffer is full, and otherwise at the
\* first wait in which no data is ready, with pos as accumulated.
C23_Burst ==
    /\ [](\A i \in Slots :
            /\ hpos[i] <= UDS_BUF_SIZE /\ Len(hbuf[i]) <= UDS_BUF_SIZE
            /\ hpc[i] = "select" => hpos[i] \in 1..(UDS_BUF_SIZE - 1)
            /\ hpc[i] = "validate" =>
                  /\ hpos[i] \in 1..UDS_BUF_SIZE
                  /\ stat[i].how = "full" <=> hpos[i] = UDS_BUF_SIZE)
    /\ [][\A i \in Slots :
            /\ (RecvStep(i) /\ Taken(i) > 0) => Accumulates(i)
            /\ (RecvStep(i) /\ Taken(i) = 0) => hpos'[i] = hpos[i]
            /\ WaitStep(i) => WaitEnds(i)
            /\ (hpc[i] \notin {"recv", "select"} /\ hpc'[i] = "recv")
                  => hpos'[i] = 0]_vars

\* a burst has filled the buffer and ended, with bytes of the request still
\* unread
C23_Witness ==
    \E i \in Slots :
       /\ hpc[i] = "validate" /\ stat[i].how = "full"
       /\ hpos[i] = UDS_BUF_SIZE
       /\ Len(Queued(i)) > Overrun

\* the request client c has sent and waits the answer of is longer than the
\* receive buffer: no burst can hold it
Uncapturable(c) == clast[c] # NULL /\ Len(clast[c]) > UDS_BUF_SIZE

\* the burst in the buffer of slot i
Burst(i) == SubSeq(hbuf[i], 1, hpos[i])

\* the burst of slot i is the beginning, and not the whole, of the request
\* its peer has sent
HeadFragment(i) ==
    /\ ConnOf(conn[i].client_fd) # 0
    /\ clast[ConnOf(conn[i].client_fd)] # NULL
    /\ hpos[i] < Len(clast[ConnOf(conn[i].client_fd)])
    /\ Burst(i) = SubSeq(clast[ConnOf(conn[i].client_fd)], 1, hpos[i])

\* the burst of slot i is what followed the first UDS_BUF_SIZE bytes of the
\* request its peer has sent
TailFragment(i) ==
    /\ ConnOf(conn[i].client_fd) # 0
    /\ Uncapturable(ConnOf(conn[i].client_fd))
    /\ Burst(i) = SubSeq(clast[ConnOf(conn[i].client_fd)], UDS_BUF_SIZE + 1,
                         Len(clast[ConnOf(conn[i].client_fd)]))

\* C24 as stated: while a client waits for the answer to a request that no
\* burst can hold, the handler of its connection dispatches nothing and
\* sends nothing.
C24_AsStated ==
    \A i \in Slots :
       (ConnOf(conn[i].client_fd) # 0 /\ Uncapturable(ConnOf(conn[i].client_fd)))
          => /\ hpc[i] \notin {"dispatch", "reply"}
             /\ s2c[ConnOf(conn[i].client_fd)] = <<>>

\* C24: of a packet that is not captured whole within one burst, the burst
\* that holds its beginning fails verify_command_packet and is dropped
\* without a reply; the bytes that follow are validated as a burst of their
\* own, dropped when they fail verify_command_packet and dispatched and
\* answered when they happen to form a valid packet.  A burst is dispatched
\* only if it passes verify_command_packet.
C24_Fragments ==
    /\ [](\A i \in Slots :
            /\ (hpc[i] = "validate" /\ HeadFragment(i))
                  => verify_command_packet(hbuf[i], hpos[i]) = 0
            /\ (hpc[i] = "dispatch" /\ TailFragment(i))
                  => verify_command_packet(hbuf[i], hpos[i]) = 1
            /\ hpc[i] \in {"dispatch", "reply"} => ~HeadFragment(i))
    /\ [][\A i \in Slots : DiscardStep(i) => Discarded(i)]_vars

\* the beginning of a request longer than the buffer has been dropped, and
\* the bytes that followed it, a valid packet, are handed to the callback
C24_Witness ==
    \E i \in Slots :
       /\ hpc[i] = "dispatch" /\ TailFragment(i)
       /\ stat[i].bad = 1 /\ stat[i].sends = 0

(***************************************************************************)
(* The life of a handler thread.                                           *)
(***************************************************************************)
\* the step on which the thread of slot i leaves its loop
LeavesLoop(i) == hpc[i] # "closing" /\ hpc'[i] = "closing"

\* the peer of slot i's connection has closed its end
PeerGone(i) ==
    /\ ConnOf(conn[i].client_fd) # 0
    /\ ~copen[ConnOf(conn[i].client_fd)]

\* why a thread may leave its loop: its peer has disconnected, its send did
\* not transfer the response, or its recv failed: interrupted by the signal
\* that ends the server, or on a descriptor that is no longer open
LoopEndCause(i) ==
    \/ PeerGone(i)
    \/ hpc[i] = "reply" /\ ~SentWhole(i)
    \/ Blocked(i) /\ loop_flag' = 0 /\ why'[i] = "recverr"
    \/ ConnOf(conn[i].client_fd) = 0

\* C25: a handler thread leaves its loop only when its peer has
\* disconnected or an I/O call on its connection has failed; until then it
\* stays in its loop with its slot in use and its descriptor open, however
\* long the peer is silent and whatever happens on the other connections.
C25_NoIdleTimeout ==
    /\ [][\A i \in Slots : LeavesLoop(i) => LoopEndCause(i)]_vars
    /\ [](\A i \in Slots :
            Working(i) /\ hpc[i] # "closing"
               => /\ conn[i].inuse # 0
                  /\ why[i] = ""
                  /\ Blocked(i) => ConnOf(conn[i].client_fd) # 0)

\* a peer that has connected and never sent a byte still holds its slot, its
\* handler waiting in recv, after the other connection has been served and
\* has gone
C25_Witness ==
    \E i, j \in Slots :
       /\ i # j
       /\ Blocked(i) /\ conn[i].inuse # 0
       /\ log[ConnOf(conn[i].client_fd)] = <<>>
       /\ ccpc[ConnOf(conn[i].client_fd)] = "ready"
       /\ why[j] = "eof" /\ hpc[j] = "idle" /\ conn[j].gen > 0
       /\ loop_flag # 0

(***************************************************************************)
(* verify_command_packet, test by test.                                    *)
(***************************************************************************)
SignatureOk == GetSignature(cbuf) = UDS_SIGNATURE

LengthOk == DataLenIs(cbuf, clen - HDR_SIZE)

ChecksumOk == csum = 0

\* C26: verify_command_packet(buf, n) returns 1 exactly when the signature
\* field is the magic constant, data_len plus the header size is n, and
\* compute_checksum over the n bytes is 0; a buffer of the right length and
\* checksum with another signature is rejected.
C26_Validate ==
    cchk => /\ cres \in {0, 1}
            /\ cres = 1 <=> (SignatureOk /\ LengthOk /\ ChecksumOk)

\* a packet of the declared length whose checksum folds to zero over its own
\* signature, which is not the magic constant, has been rejected
C26_Witness ==
    /\ cchk /\ cmod = "sig"
    /\ ~SignatureOk /\ LengthOk /\ ChecksumOk
    /\ cres = 0

(***************************************************************************)
(* Errors of the application.                                              *)
(***************************************************************************)
\* the response carries an error status
ErrorStatus(pkt) == Command(pkt) \in {STATUS_ERROR, STATUS_INVALID_COMMAND}

\* the step on which the thread of slot i has sent such a response whole
ErrorReplied(i) ==
    /\ ReplyStep(i) /\ SentWhole(i)
    /\ ErrorStatus(hresp[i].bytes)

\* C27: the step that sends a response with an error status (invalid
\* command from the callback, or the generic error) leaves the descriptor
\* open and the slot in use and takes the handler back to the start of a
\* burst; and every valid request that follows a response on the connection
\* is answered in its turn, unless the send of its answer fails.
C27_ErrorKeepsConnection ==
    /\ [][\A i \in Slots :
            ErrorReplied(i) =>
               /\ hpc'[i] = "recv" /\ hpos'[i] = 0
               /\ conn' = conn /\ fdtab' = fdtab /\ sstate' = sstate
               /\ why' = why]_vars
    /\ \A i \in Slots :
          (hpc[i] = "dispatch" /\ stat[i].sends >= 1)
             ~> (hpc[i] = "recv" \/ why[i] = "senderr")

\* on one connection a request with an unknown command has been answered,
\* and the client holds the version it then asked for
C27_Witness ==
    \E c \in Clients, i \in Slots :
       /\ Len(log[c]) = 8
       /\ log[c][1].cmd \in UnknownCommands /\ log[c][3].t = "a"
       /\ log[c][5].cmd = CommandBytes(CallerPacket(Request(CMD_GET_VERSION, <<>>)))
       /\ log[c][8].t = "x"
       /\ cret[c] # NULL /\ VersionResponse(cret[c])
       /\ ConnOf(conn[i].client_fd) = c
       /\ conn[i].gen = 1 /\ conn[i].inuse # 0
       /\ hpc[i] = "recv" /\ stat[i].sends = 2

(***************************************************************************)
(* The descriptors accept has returned.                                    *)
(***************************************************************************)
\* the step on which server_close closes the descriptor of the slot whose
\* thread it has joined
JoinCloses == mpc = "join" /\ mpc' # "join"

\* the step on which the thread of slot i closes its descriptor
HandlerCloses(i) == hpc[i] = "closing" /\ hpc'[i] # "closing"

\* the step on which the acceptor closes the descriptor it has accepted
AcceptorCloses == mpc \in {"full", "claim"} /\ mpc' = "loop" /\ rc' = -1

\* C28: every close of an accepted descriptor, by the acceptor, by the
\* handler or by server_close, is the close of an open descriptor: none is
\* closed a second time, and server_close closes neither a descriptor its
\* joined handler has closed nor one that belongs to another connection.
C28_ClosedOnce ==
    [][/\ JoinCloses => fdtab[conn[mi].client_fd] # 0
       /\ AcceptorCloses => fdtab[cl] # 0
       /\ \A i \in Slots : HandlerCloses(i) => fdtab[conn[i].client_fd] # 0]_vars

\* server_close has joined the thread of a slot, which has closed its
\* descriptor, and is about to close that descriptor
C28_Witness ==
    /\ mpc = "join" /\ hpc[mi] = "idle"
    /\ why[mi] # ""
    /\ conn[mi].client_fd # 0
    /\ fdtab[conn[mi].client_fd] = 0

(***************************************************************************)
(* The slot table under the acceptor and the handlers, without a lock.     *)
(***************************************************************************)
\* the thread of slot i is in its loop: RECEIVING, VALIDATING, DISPATCHING
\* or REPLYING
InLoop(i) == hpc[i] \in {"recv", "select", "validate", "dispatch", "reply"}

\* C29: in every interleaving of the acceptor's scan and claim with the
\* handlers' releases, a handler in its loop has its slot flagged in use
\* with an open descriptor that no other working thread holds, no step of
\* any thread changes the slot's flag or descriptor while its handler is in
\* the loop, and the acceptor claims a slot only when its flag is clear and
\* its thread has ended.
C29_SingleOwner ==
    /\ [](/\ OwnDescriptor
          /\ \A i \in Slots :
                InLoop(i) => /\ conn[i].inuse # 0
                             /\ conn[i].client_fd \in Fds
                             /\ fdtab[conn[i].client_fd] # 0)
    /\ [][/\ \A i \in Slots :
                InLoop(i) => /\ conn'[i].inuse = conn[i].inuse
                             /\ conn'[i].client_fd = conn[i].client_fd
          /\ ClaimStep => ~InLoop(mi) /\ hpc[mi] = "idle" /\ conn[mi].inuse = 0]_vars

\* the acceptor, between its scan and its claim, holds a slot that has
\* served a connection before, while the handler of another slot is between
\* its close and its release
C29_Witness ==
    \E i, j \in Slots :
       /\ i # j
       /\ mpc = "claim" /\ mi = i
       /\ conn[i].gen >= 1 /\ hpc[i] = "idle"
       /\ hpc[j] = "release" /\ conn[j].inuse # 0

\* the slots flagged in use
InUse == {i \in Slots : conn[i].inuse # 0}

\* the scan looks at slot mi and goes on to the next
ScanPasses == mpc = "scan" /\ mpc' \in {"scan", "full"} /\ mi' # mi

\* the scan looks at slot mi and stops
ScanFinds == mpc = "scan" /\ mpc' = "claim"

\* C30: never more than UDS_MAX_CLIENT slots are in use.  The scan starts
\* at slot 0, passes a slot only when it reads its flag as set and stops at
\* the first slot whose flag it reads as clear; a clear flag is set by
\* nothing but the acceptor's claim, so a slot that was free when the scan
\* began is found unless a lower one is.  The slot claimed is the one the
\* scan stopped at, and a connection is refused only after the scan has
\* passed every slot.
C30_ScanAndClaim ==
    /\ [](/\ Cardinality(InUse) <= UDS_MAX_CLIENT
          /\ mpc \in {"scan", "claim"} => mi \in Slots
          /\ mpc = "claim" => conn[mi].inuse = 0
          /\ mpc = "full" => mi = UDS_MAX_CLIENT)
    /\ [][/\ (mpc = "accept" /\ mpc' = "scan") => mi' = 0
          /\ ScanPasses => conn[mi].inuse # 0 /\ mi' = mi + 1
          /\ ScanFinds => conn[mi].inuse = 0 /\ mi' = mi
          /\ ClaimStep => conn'[mi].client_fd = cl /\ conn' = [conn EXCEPT ![mi] = conn'[mi]]
          /\ \A i \in Slots :
                (conn[i].inuse = 0 /\ conn'[i].inuse # 0) => mpc = "claim" /\ mi = i]_vars

\* a connection is about to be refused although a slot is free by now: its
\* handler cleared the flag after the scan had passed it
C30_Witness ==
    /\ mpc = "full"
    /\ \E i \in Slots : conn[i].inuse = 0 /\ hpc[i] = "idle" /\ why[i] = "eof"

(***************************************************************************)
(* SIGINT and the accept loop.                                             *)
(***************************************************************************)
\* main has left its loop: server_close is running or has returned
LoopLeft == mpc \in {"close", "join", "done"}

\* C31: once the SIGINT handler has cleared loop_flag, the accept loop
\* stops and server_close is called, whichever thread ran the handler and
\* wherever the acceptor was, even when no client connects any more.
C31_LoopStops == (loop_flag = 0) ~> LoopLeft

\* loop_flag is clear and the acceptor is blocked in accept, every client
\* having come and gone
C31_Witness ==
    /\ loop_flag = 0
    /\ mpc = "accept" /\ backlog = <<>>
    /\ \A c \in ShutClients : ccpc[c] = "done"


(***************************************************************************)
(* The caller that goes on after a call returned NULL.                     *)
(***************************************************************************)
\* calls a caller makes on a connection after one returned NULL
MaxRetry == 1

\* uds.c:54-57 in the client: recv returns -1 (a signal handled by the
\* calling program, no memory) with the connection intact; recv_data returns
\* the pos bytes it has, and nothing is taken from the socket
ClientRecvError(c) ==
    /\ ccpc[c] = "recv"
    /\ sstate[c] # "closed"
    /\ ClientReturn(c, crbuf[c], Len(crbuf[c]), s2c[c])
    /\ UNCHANGED <<mvars, conn, fdtab, backlog, hvars, c2s, sstate, atClose,
                   why, cvars>>

\* uds.c:619-659 called again: client_send_request leaves the connection
\* open when it returns NULL, and the caller issues another request on it
ClientGoOn(c) ==
    /\ ccpc[c] = "failed"
    /\ copen[c]
    /\ Cardinality({k \in DOMAIN log[c] : log[c][k].t = "n"}) < MaxRetry
    /\ \E r \in ProtoRequests : plan' = [plan EXCEPT ![c] = <<r>>]
    /\ ccpc' = [ccpc EXCEPT ![c] = "ready"]
    /\ Logged(c, Event("n", <<>>))
    /\ UNCHANGED <<mvars, conn, fdtab, backlog, hvars, c2s, s2c, sstate,
                   copen, cinit, cret, clast, crbuf, atClose, why, cvars>>

\* ProtoSpec with a receive that can fail and a caller that retries
RetryNext ==
    \/ ProtoNext
    \/ ClientRecvError(1)
    \/ ClientGoOn(1)

RetrySpec == ProtoInit /\ [][RetryNext]_vars

\* the call of client c returns a result in this step
ReturnsResult(c) ==
    /\ ccpc[c] \in {"recv", "select"}
    /\ ccpc'[c] = "ready"
    /\ cret'[c] # NULL

\* resp is a response request_handle_routine can send for the request req
AnswerTo(req, resp) ==
    \E ok \in BOOLEAN, junk \in JunkVals :
       \E R \in {handler_response(req, my_request_handler(req, ok, junk))} :
          resp = SubSeq(R.resp, 1, R.resp_len)

\* C32: whenever a client_send_request call returns a result, the result is
\* the response the server produced for the request sent in that same call,
\* never the response to an earlier request, also after earlier calls on the
\* connection returned NULL.
C32_OwnResponse ==
    [][\A c \in Clients : ReturnsResult(c) => AnswerTo(clast[c], cret'[c])]_vars

\* a call has returned a result after an earlier call on the connection
\* returned NULL and the caller went on
C32_Witness ==
    /\ ccpc[1] = "ready"
    /\ cret[1] # NULL
    /\ \E k \in DOMAIN log[1] : log[1][k].t = "n"


\* BurstSpec with the server's threads and the client's receive scheduled
\* fairly
BurstFair ==
    /\ BurstSpec
    /\ WF_vars(MainLoop \/ MainAccept \/ MainScan \/ MainClaim)
    /\ \A i \in Slots : WF_vars(HandlerNext(i))
    /\ WF_vars(ClientRecv(1) \/ ClientSelect(1))

\* client c is inside client_send_request, after its send
InCall(c) == ccpc[c] \in {"recv", "select"}

\* C33 as stated: every call to client_send_request eventually returns, with
\* or without a result, while the server stays up, also when the server
\* discards the request and sends no reply.
C33_AsStated == \A c \in Clients : InCall(c) ~> ~InCall(c)

\* the client waits in recv for the reply to a request of which the server
\* has read and discarded every burst, and the server waits for the next burst
Starved(c) ==
    /\ ccpc[c] = "recv" /\ s2c[c] = <<>> /\ c2s[c] = <<>>
    /\ sstate[c] = "open"
    /\ log[c] # <<>> /\ log[c][Len(log[c])].t = "q"
    /\ \E i \in Slots :
          /\ conn[i].inuse = 1 /\ ConnOf(conn[i].client_fd) = c
          /\ hpc[i] = "recv" /\ hpos[i] = 0
          /\ stat[i].bad > 0

\* C33: a call to client_send_request returns when the server replies or
\* closes the connection; when the server discards the request and sends no
\* reply the call does not return: the client stays blocked in recv, which
\* has no timeout, for as long as the connection stays open.
C33_ReturnsOrBlocked ==
    /\ \A c \in Clients : InCall(c) ~> (~InCall(c) \/ Starved(c))
    /\ \A c \in Clients : [](Starved(c) => [](InCall(c)))

\* the server has discarded both bursts of an oversized request and the
\* client waits for the reply
C33_Witness ==
    /\ Starved(1)
    /\ Len(clast[1]) > UDS_BUF_SIZE


\* server_accept_request returns from a failed pthread_create in this step
SpawnFails == mpc = "claim" /\ rc' = -1

\* C34: when pthread_create fails after a slot was claimed,
\* server_accept_request closes the accepted descriptor, sets the slot's
\* in-use flag back to 0 and returns -1: the set of in-use slots is what it
\* was before the call, no thread is counted for the slot, and server_close
\* joins only slots that have a thread it has not joined yet.
C34_SpawnFailure ==
    /\ [][SpawnFails =>
            /\ fdtab'[cl] = 0
            /\ conn'[mi].inuse = 0
            /\ {i \in Slots : conn'[i].inuse # 0} = InUse
            /\ conn'[mi].gen = conn[mi].gen
            /\ hpc'[mi] = hpc[mi]]_vars
    /\ [](mpc = "join" => Unjoined(mi) > 0)

\* server_close has run to its end over a slot whose only claim failed at
\* pthread_create: the slot kept the descriptor, had no thread and was not
\* joined
C34_Witness ==
    /\ mpc = "done"
    /\ \E i \in Slots :
          /\ conn[i].client_fd # 0 /\ conn[i].inuse = 0
          /\ conn[i].gen = 0 /\ conn[i].joined = 0


\* free(s) has been executed
Freed == mpc = "done"

\* C35: server_close frees the server only when no handler thread can still
\* access it: once it is freed every handler thread has ended (none is
\* receiving, validating, dispatching or replying), and afterwards no slot is
\* read or written by a handler and the request callback is not called.
C35_FreedAfterHandlers ==
    /\ [](Freed => \A i \in Slots : hpc[i] = "idle")
    /\ [][Freed => hpc' = hpc /\ conn' = conn /\ stat' = stat
                      /\ hbuf' = hbuf /\ hresp' = hresp]_vars

\* the server has been freed after server_close joined the threads of all
\* its slots, each of which had served a connection
C35_Witness ==
    /\ Freed
    /\ \A i \in Slots : conn[i].gen > 0 /\ conn[i].joined = conn[i].gen


(***************************************************************************)
(* compute_checksum over buffers up to UDS_BUF_SIZE bytes.                 *)
(***************************************************************************)
SumBytes == {0, 1, 255}

\* buffers of UDS_BUF_SIZE bytes: one value throughout, every fifth byte
\* another
SumBuffers ==
    {[k \in 1..UDS_BUF_SIZE |-> IF k % 5 = 0 THEN x ELSE a] :
        a \in SumBytes, x \in SumBytes}

\* the lengths summed: the shortest, and those around half and all of the
\* buffer
SumLens ==
    (0..7) \cup {UDS_BUF_SIZE \div 2 - 1, UDS_BUF_SIZE \div 2,
                 UDS_BUF_SIZE - 1, UDS_BUF_SIZE}

SumInit ==
    /\ cbuf \in SumBuffers
    /\ clen \in SumLens
    /\ cstage = "raw"
    /\ cmod = "none"
    /\ corig = NULL
    /\ cchk = FALSE
    /\ cres = -1
    /\ csum = -1
    /\ SysInit({[c \in Clients |-> <<>>]}, {MaxTimeout}, TRUE)

SumSpec == SumInit /\ [][CodecVerify]_vars

\* sum <= 0xFFFFFFFF, the least ULONG_MAX there is: its high half fits 16 bits
FitsULong(sum) == sum \div 65536 <= 65535

\* C36: for every buffer up to UDS_BUF_SIZE bytes the sum of
\* compute_checksum does not overflow its accumulator, the fold loop ends
\* with a sum of at most 0xFFFF that is congruent to the unfolded sum modulo
\* 0xFFFF, and the value returned is the 16-bit complement of the folded sum.
C36_FoldExact ==
    cchk =>
      /\ FitsULong(RawSum(cbuf, clen))
      /\ FoldCarry(RawSum(cbuf, clen)) <= 65535
      /\ FoldCarry(RawSum(cbuf, clen)) % 65535 = RawSum(cbuf, clen) % 65535
      /\ csum = 65535 - FoldCarry(RawSum(cbuf, clen))

\* the checksum has been computed over the whole buffer of 0xFF bytes, the
\* largest sum there is, and over a buffer whose sum needs two folds
C36_Witness ==
    /\ cchk
    /\ \/ clen = UDS_BUF_SIZE /\ \A k \in 1..UDS_BUF_SIZE : cbuf[k] = 255
       \/ FoldOnce(RawSum(cbuf, clen)) > 65535


\* thread i holds a response object the callback returned
HoldsResponse(i) == hresp[i] # NoResp /\ ~hresp[i].local

\* C37: a response object returned by the callback is released exactly once,
\* in the step that follows the send attempt and whatever the send returned;
\* the handler's own buffer, when it carries the generic-error reply, is
\* never released.
C37_ResponseOwnership ==
    /\ [](\A i \in Slots :
            /\ stat[i].allocs = stat[i].frees + (IF HoldsResponse(i) THEN 1 ELSE 0)
            /\ hresp[i] # NoResp => hpc[i] = "reply")
    /\ [][\A i \in Slots :
            hresp[i] # NoResp /\ hresp[i].local
               => stat'[i].frees = stat[i].frees]_vars

\* a thread has sent the generic-error reply from its own buffer, then
\* failed to send whole a response the callback returned, and has released
\* that one response
C37_Witness ==
    \E i \in Slots :
       /\ hpc[i] = "closing" /\ why[i] = "senderr"
       /\ stat[i].sends = 2 /\ stat[i].calls = 2
       /\ stat[i].allocs = 1 /\ stat[i].frees = 1


(***************************************************************************)
(* Bursts shorter than the header.                                         *)
(***************************************************************************)
\* what the stack holds where a new thread's buf[] lies: the packet an
\* earlier thread received there, or zeros
StackJunk ==
    {client_encode(CallerPacket(Request(CMD_GET_VERSION, <<>>))),
     [k \in 1..HDR_SIZE |-> 0]}

\* uds.c:634-638: send transfers the first bytes of the request only, fewer
\* than a header
ClientSendPart(c) ==
    /\ ccpc[c] = "ready"
    /\ plan[c] # <<>>
    /\ sstate[c] # "closed"
    /\ \E req \in {client_encode(CallerPacket(Head(plan[c])))} :
       \E bytes \in 1..(HDR_SIZE - 1) :
          CSend(c, req, bytes)

\* ProtoSpec with requests cut anywhere inside the header and threads that
\* start on a used stack
ShortNext ==
    \/ MainLoop
    \/ MainAccept
    \/ MainScan
    \/ MainClaimWith(StackJunk)
    \/ \E i \in Slots : HandlerNext(i)
    \/ ClientNext(1)
    \/ ClientSendPart(1)

ShortSpec == ProtoInit /\ [][ShortNext]_vars

\* thread i has a burst shorter than the header to validate
ShortBurst(i) == hpc[i] = "validate" /\ hpos[i] < HDR_SIZE

\* C38: a burst shorter than the header is always rejected by
\* verify_command_packet, whatever the buffer holds beyond it from earlier
\* packets: the handler goes back to receiving and the callback is not
\* called.
C38_ShortBurstRejected ==
    /\ [](\A i \in Slots :
            ShortBurst(i) => verify_command_packet(hbuf[i], hpos[i]) = 0)
    /\ [][\A i \in Slots :
            ShortBurst(i) /\ hpc'[i] # hpc[i]
               => /\ hpc'[i] = "recv"
                  /\ stat'[i].bad = stat[i].bad + 1
                  /\ stat'[i].calls = stat[i].calls]_vars

\* a burst of fewer than four bytes lies over a packet the thread accepted
\* before, and the buffer as a whole is a valid packet
C38_Witness ==
    \E i \in Slots :
       /\ ShortBurst(i) /\ hpos[i] < 4
       /\ stat[i].valid > 0
       /\ verify_command_packet(hbuf[i], Len(hbuf[i])) = 1

=============================================================================
